---- MODULE Spec2Model ----
(***************************************************************************)
(* Model of the shielded-payment detection engine.                         *)
(*                                                                         *)
(* Part I  : ZcashLightClient (connect / scanBlocks / sync, the scan       *)
(*           cursor lastScannedHeight).                                    *)
(* Part II : the zingo watch loop (watchForTransactions, the processed-id  *)
(*           set and its file, the consecutive-error circuit breaker).     *)
(* Part III: trial decryption (crypto/sapling.ts) and the data handler.    *)
(* Part IV : syncWallet and markProcessed called directly.                 *)
(* Part V  : the demo service (services/zcash.ts).                         *)
(***************************************************************************)
EXTENDS Integers, Sequences, FiniteSets, TLC

\* ------------------------------------------------------------------------
\* Bounds and program constants
\* ------------------------------------------------------------------------

\* const BATCH_SIZE = 1000 in sync()
BATCH_SIZE == 1000

\* highest chain height the modelled server ever reports
MaxHeight == 2500

\* info.saplingActivationHeight reported by the modelled server
ActivationHeight == 100

\* callers that may each have one call on the client in flight
Callers == {"c1", "c2"}

\* heights the server's chain tip takes (it only grows)
ServerHeights == {0, 1000, MaxHeight}

\* arguments a direct caller passes to scanBlocks
ScanPoints == {1, 2000}

\* arguments passed to setStartHeight
StartPoints == {0, 1500}

\* heights whose compact block holds one Sapling output that tryDecryptNote
\* decrypts with the client's viewing key
MatchHeights == {1000, 1001}

\* const MAX_CONSECUTIVE_ERRORS = 5 in watchForTransactions()
MAX_CONSECUTIVE_ERRORS == 5

\* default of syncWallet(retries)
SyncRetries == 3

\* transaction ids of the wallet's notes that carry a memo
Ids == {1, 2}

\* a note the CLI reports without a txid
NoTxid == 0

\* what a successful "notes" command may report, in the order
\* parseNotesOutput reads it (Sapling notes, then Orchard notes)
NoteLists == {<<1>>, <<1, 2, 1>>, <<NoTxid>>}

\* poll chains (one per watchForTransactions call that got past the guard)
Chains == {1, 2}

\* heights parsed from the output of a successful sync command (0 when the
\* output holds no height)
SyncHeights == {0, 7}

VARIABLES
    lastScannedHeight,  \* ZcashLightClient.lastScannedHeight
    isConnected,        \* ZcashLightClient.isConnected
    client,             \* ZcashLightClient.client # null
    ivk,                \* ZcashLightClient.ivk # null
    serverHeight,       \* chain tip of the lightwalletd server
    call,               \* per caller: the call it has in flight on the client
    cursorSource,       \* history: what assigned lastScannedHeight last
    processedTxids,     \* zingo: the in-memory processed-id set
    diskIds,            \* zingo: the ids in .zingo/processed_txids.json
    isWatching,         \* zingo: the running flag
    lastSyncHeight,     \* zingo: the height parsed from the last successful sync
    phase,              \* process: "fresh" after start, "ready" after initZingo
    chain,              \* per poll chain: position and closure variables
    delivered,          \* history: ids whose handler completed in this process
    everDelivered,      \* history: ids whose handler completed in any process
    failed,             \* history: ids whose handler threw in this process
    ioFailed,           \* history: a read or write of the id file has failed
    env,                \* scenario: "any", "syncDown" or "handlerThrows"
    failStreak,         \* history (syncDown): consecutive polls whose sync failed
    throwStreak,        \* history (handlerThrows): consecutive polls whose handler threw
    arg,                \* the function being applied and its arguments
    ret,                \* what it has returned
    demoTransactions,   \* demo service: the demoTransactions array
    demoProcessedTxids, \* demo service: its processedTxids set
    demoIsWatching,     \* demo service: its isWatching flag
    demoChain           \* demo service: per poll chain, position and closure variables

clientVars == <<lastScannedHeight, isConnected, client, ivk, serverHeight, call,
                cursorSource>>

watchVars == <<processedTxids, diskIds, isWatching, lastSyncHeight, phase, chain,
               delivered, everDelivered, failed, ioFailed, env, failStreak, throwStreak>>

pureVars == <<arg, ret>>

demoVars == <<demoTransactions, demoProcessedTxids, demoIsWatching, demoChain>>

vars == <<clientVars, watchVars, pureVars, demoVars>>

\* ------------------------------------------------------------------------
\* Helpers
\* ------------------------------------------------------------------------

Min(a, b) == IF a <= b THEN a ELSE b

RECURSIVE SeqAsc(_)
SeqAsc(S) ==
    IF S = {} THEN <<>>
    ELSE LET m == CHOOSE x \in S : \A y \in S : x <= y
         IN  <<m>> \o SeqAsc(S \ {m})

Reverse(s) == [i \in 1..Len(s) |-> s[Len(s) + 1 - i]]

\* The matching blocks a getBlockRange(start, end) stream delivers, in stream
\* order: ascending for start <= end, descending for an inverted range.
\* Blocks without a matching output only bump local counters in the data
\* handler; their data events leave the state unchanged and are not modelled.
StreamBlocks(start, end) ==
    IF start <= end
    THEN SeqAsc({h \in MatchHeights : start <= h /\ h <= end})
    ELSE Reverse(SeqAsc({h \in MatchHeights : end <= h /\ h <= start}))

\* A caller with no call in flight.
IdleCall ==
    [kind |-> "none", pc |-> "idle", start |-> 0, end |-> 0, H |-> 0,
     txs |-> <<>>, all |-> <<>>, ok |-> FALSE, stream |-> "none",
     \* history of the call, kept while nothing else has touched the client
     \* since the call began
     alone |-> FALSE, lsh0 |-> 0, L |-> 0, ranges |-> <<>>]

NoHistory(r) ==
    [r EXCEPT !.alone = FALSE, !.lsh0 = 0, !.L = 0, !.ranges = <<>>,
              !.H = IF r.pc \in {"resolved", "rejected"} THEN 0 ELSE @]

\* Caller c starts a call: every other call overlaps with it.
MarkOverlap(c) ==
    [d \in Callers |-> IF d # c THEN NoHistory(call[d]) ELSE call[d]]

Settled(r) == r.pc \in {"idle", "resolved", "rejected"}

Quiet(c) == \A d \in Callers \ {c} : Settled(call[d]) /\ call[d].stream = "none"

NewCall(c, kind) ==
    [IdleCall EXCEPT !.kind = kind, !.lsh0 = IF Quiet(c) THEN lastScannedHeight ELSE 0,
                     !.alone = Quiet(c)]

\* the promise of the call settles; its locals are dead from here on
Resolve(r, value) ==
    [r EXCEPT !.pc = "resolved", !.all = value, !.txs = <<>>, !.stream = "none",
              !.start = 0, !.end = 0, !.H = IF r.alone THEN @ ELSE 0]

Reject(r) ==
    [r EXCEPT !.pc = "rejected", !.all = <<>>, !.txs = <<>>, !.start = 0, !.H = 0]

\* scanBlocks: this.client.getBlockRange({start, end}) and the handlers set up
OpenStream(r, s, e) ==
    [r EXCEPT !.pc = "streaming", !.start = s, !.end = e, !.txs = <<>>,
              !.stream = "open",
              !.ranges = IF r.alone THEN Append(@, <<s, e>>) ELSE @]

\* scanBlocks(s, e) up to its first suspension
ScanBlocksStart(r, s, e) ==
    IF ~client \/ ~ivk
    THEN Resolve(r, <<>>)
    ELSE OpenStream(r, s, e)

\* SyncLoop with a batch end that is one height too far
SyncLoopOffByOne(r, start, all) ==
    IF start > r.H \/ ~client \/ ~ivk
    THEN Resolve(r, all)
    ELSE OpenStream([r EXCEPT !.all = all], start, Min(start + BATCH_SIZE, r.H))

\* sync(): the head of the batch loop with loop variable start and the
\* matches accumulated so far. Without client or key every remaining
\* scanBlocks call returns [] at once and the loop runs to its end.
SyncLoop(r, start, all) ==
    IF start > r.H \/ ~client \/ ~ivk
    THEN Resolve(r, all)
    ELSE OpenStream([r EXCEPT !.all = all], start, Min(start + BATCH_SIZE - 1, r.H))

\* sync() after a successful getLatestBlock() that returned height h
SyncCompare(r, h) ==
    LET r1 == [r EXCEPT !.H = h, !.L = IF r.alone THEN lastScannedHeight ELSE 0]
    IN  IF lastScannedHeight >= h
        THEN Resolve(r1, <<>>)
        ELSE SyncLoop(r1, lastScannedHeight + 1, <<>>)

\* ------------------------------------------------------------------------
\* Part I: ZcashLightClient
\* ------------------------------------------------------------------------

ClientInit ==
    /\ lastScannedHeight = 0
    /\ isConnected = FALSE
    /\ client = FALSE
    /\ ivk \in BOOLEAN
    /\ serverHeight \in ServerHeights
    /\ call = [c \in Callers |-> IdleCall]
    /\ cursorSource = "init"

\* connect() up to the info query: the proto file is missing or cannot be
\* loaded (resolve false), or the client object is created and
\* getLightdInfo is sent.
ConnectPrefix(c, kind) ==
    \E protoOk \in BOOLEAN :
        IF protoOk
        THEN /\ client' = TRUE
             /\ call' = [MarkOverlap(c) EXCEPT
                            ![c] = [NewCall(c, kind) EXCEPT !.pc = "connecting"]]
        ELSE /\ client' = client
             /\ call' = [MarkOverlap(c) EXCEPT
                            ![c] = Resolve(NewCall(c, kind), <<>>)]

\* a caller calls connect()
ConnectCall(c) ==
    /\ Settled(call[c])
    /\ ConnectPrefix(c, "connect")
    /\ UNCHANGED <<lastScannedHeight, isConnected, ivk, serverHeight, cursorSource, watchVars, pureVars, demoVars>>

\* InfoResponse that rejects when the info query returns an error
InfoResponseRejects(c) ==
    /\ call[c].pc = "connecting"
    /\ \E err \in BOOLEAN :
        IF err
        THEN /\ call' = [call EXCEPT ![c] = Reject(@)]
             /\ UNCHANGED <<lastScannedHeight, isConnected, cursorSource>>
        ELSE /\ isConnected' = TRUE
             /\ cursorSource' = IF lastScannedHeight = 0 THEN "connect" ELSE cursorSource
             /\ lastScannedHeight' =
                    IF lastScannedHeight = 0 THEN ActivationHeight
                    ELSE lastScannedHeight
             /\ call' = [call EXCEPT ![c] =
                    IF call[c].kind = "connect"
                    THEN Resolve([@ EXCEPT !.ok = TRUE], <<>>)
                    ELSE [@ EXCEPT !.pc = "latest", !.ok = TRUE]]
    /\ UNCHANGED <<client, ivk, serverHeight, watchVars, pureVars, demoVars>>

\* the getLightdInfo callback of connect()
InfoResponse(c) ==
    /\ call[c].pc = "connecting"
    /\ \E err \in BOOLEAN :
        IF err
        THEN /\ call' = [call EXCEPT ![c] = Resolve(@, <<>>)]
             /\ UNCHANGED <<lastScannedHeight, isConnected, cursorSource>>
        ELSE /\ isConnected' = TRUE
             /\ cursorSource' = IF lastScannedHeight = 0 THEN "connect" ELSE cursorSource
             /\ lastScannedHeight' =
                    IF lastScannedHeight = 0 THEN ActivationHeight
                    ELSE lastScannedHeight
             /\ call' = [call EXCEPT ![c] =
                    IF call[c].kind = "connect"
                    THEN Resolve([@ EXCEPT !.ok = TRUE], <<>>)
                    ELSE [@ EXCEPT !.pc = "latest", !.ok = TRUE]]
    /\ UNCHANGED <<client, ivk, serverHeight, watchVars, pureVars, demoVars>>

\* a caller calls sync()
SyncCall(c) ==
    /\ Settled(call[c])
    /\ IF ~isConnected
       THEN ConnectPrefix(c, "sync")
       ELSE /\ call' = [MarkOverlap(c) EXCEPT ![c] =
                    IF client
                    THEN [NewCall(c, "sync") EXCEPT !.pc = "latest"]
                    ELSE Resolve(NewCall(c, "sync"), <<>>)]
            /\ client' = client
    /\ UNCHANGED <<lastScannedHeight, isConnected, ivk, serverHeight, cursorSource, watchVars, pureVars, demoVars>>

\* LatestResponse that clamps the cursor to the height the server reported
LatestResponseClamp(c) ==
    /\ call[c].pc = "latest"
    /\ \E err \in BOOLEAN :
        /\ call' = [call EXCEPT ![c] =
                    IF err THEN Resolve(@, <<>>)
                    ELSE SyncCompare(@, serverHeight)]
        /\ lastScannedHeight' =
                IF ~err /\ lastScannedHeight >= serverHeight
                THEN serverHeight ELSE lastScannedHeight
    /\ UNCHANGED <<isConnected, client, ivk, serverHeight, cursorSource, watchVars, pureVars, demoVars>>

\* the getLatestBlock callback of sync()
LatestResponse(c) ==
    /\ call[c].pc = "latest"
    /\ \E err \in BOOLEAN :
        call' = [call EXCEPT ![c] =
                    IF err THEN Resolve(@, <<>>)
                    ELSE SyncCompare(@, serverHeight)]
    /\ UNCHANGED <<lastScannedHeight, isConnected, client, ivk, serverHeight, cursorSource, watchVars, pureVars, demoVars>>

\* a caller calls scanBlocks(s, e)
ScanCall(c, s, e) ==
    /\ Settled(call[c])
    /\ call' = [MarkOverlap(c) EXCEPT
                    ![c] = ScanBlocksStart(NewCall(c, "scan"), s, e)]
    /\ UNCHANGED <<lastScannedHeight, isConnected, client, ivk, serverHeight, cursorSource, watchVars, pureVars, demoVars>>

\* stream.on("data"): the next block holding a matching output
StreamData(c) ==
    /\ call[c].stream = "open"
    /\ Len(call[c].txs) < Len(StreamBlocks(call[c].start, call[c].end))
    /\ call' = [call EXCEPT
                    ![c].txs = Append(@, StreamBlocks(call[c].start, call[c].end)[Len(@) + 1])]
    /\ UNCHANGED <<lastScannedHeight, isConnected, client, ivk, serverHeight, cursorSource, watchVars, pureVars, demoVars>>

\* StreamError that credits the range before rejecting
StreamErrorCredit(c) ==
    /\ call[c].stream = "open"
    /\ lastScannedHeight' = call[c].end
    /\ cursorSource' = "scan"
    /\ call' = [call EXCEPT ![c] = [Reject(@) EXCEPT !.stream = "errored"]]
    /\ UNCHANGED <<isConnected, client, ivk, serverHeight, watchVars, pureVars, demoVars>>

\* stream.on("error"): reject(err)
StreamError(c) ==
    /\ call[c].stream = "open"
    /\ call' = [call EXCEPT ![c] = [Reject(@) EXCEPT !.stream = "errored"]]
    /\ UNCHANGED <<lastScannedHeight, isConnected, client, ivk, serverHeight, cursorSource, watchVars, pureVars, demoVars>>

\* stream.on("end"): after the last block of the range, or after the stream
\* has failed (the transport closes the readable side of a failed call too).
\* The handler assigns lastScannedHeight and calls resolve, which settles
\* the promise only if it is still pending.
StreamEnd(c) ==
    /\ \/ /\ call[c].stream = "open"
          /\ Len(call[c].txs) = Len(StreamBlocks(call[c].start, call[c].end))
       \/ call[c].stream = "errored"
    /\ lastScannedHeight' = call[c].end
    /\ cursorSource' = "scan"
    /\ call' = [call EXCEPT ![c] =
            IF @.pc # "streaming" THEN [@ EXCEPT !.stream = "none", !.end = 0]
            ELSE IF @.kind = "scan" THEN Resolve(@, @.txs)
            ELSE SyncLoop(@, @.start + BATCH_SIZE, @.all \o @.txs)]
    /\ UNCHANGED <<isConnected, client, ivk, serverHeight, watchVars, pureVars, demoVars>>

\* a failed stream is torn down without an end event
StreamDrop(c) ==
    /\ call[c].stream = "errored"
    /\ call' = [call EXCEPT ![c].stream = "none", ![c].end = 0]
    /\ UNCHANGED <<lastScannedHeight, isConnected, client, ivk, serverHeight, cursorSource, watchVars, pureVars, demoVars>>

SetStartHeight(h) ==
    /\ lastScannedHeight' = h
    /\ cursorSource' = "set"
    /\ call' = [d \in Callers |-> NoHistory(call[d])]
    /\ UNCHANGED <<isConnected, client, ivk, serverHeight, watchVars, pureVars, demoVars>>

\* the chain grows
NewBlocks ==
    /\ \E h \in ServerHeights : h > serverHeight /\ serverHeight' = h
    /\ UNCHANGED <<lastScannedHeight, isConnected, client, ivk, call, cursorSource, watchVars, pureVars, demoVars>>

ClientNext ==
    \/ \E c \in Callers : ConnectCall(c)
    \/ \E c \in Callers : InfoResponse(c)
    \/ \E c \in Callers : SyncCall(c)
    \/ \E c \in Callers : LatestResponse(c)
    \/ \E c \in Callers, s \in ScanPoints, e \in ScanPoints : ScanCall(c, s, e)
    \/ \E c \in Callers : StreamData(c)
    \/ \E c \in Callers : StreamError(c)
    \/ \E c \in Callers : StreamEnd(c)
    \/ \E c \in Callers : StreamDrop(c)
    \/ \E h \in StartPoints : SetStartHeight(h)
    \/ NewBlocks

\* ------------------------------------------------------------------------
\* Part II: the zingo watch loop
\* ------------------------------------------------------------------------

\* a chain slot with no poll scheduled or running
OffChain ==
    [pc |-> "off", consecutiveErrors |-> 0, attempt |-> 0, txs |-> <<>>, i |-> 0,
     \* history of the running poll iteration
     tried |-> {}, syncFailed |-> FALSE, threw |-> FALSE]

\* demo service: a chain slot with no poll scheduled or running
DemoOff == [pc |-> "off", txs |-> <<>>, i |-> 0]

\* the module state of the demo service after process start
DemoInit ==
    /\ demoTransactions = <<>>
    /\ demoProcessedTxids = {}
    /\ demoIsWatching = FALSE
    /\ demoChain = [k \in Chains |-> DemoOff]

WatchInit ==
    /\ processedTxids = {}
    /\ diskIds = {}
    /\ isWatching = FALSE
    /\ lastSyncHeight = 0
    /\ phase = "fresh"
    /\ chain = [k \in Chains |-> OffChain]
    /\ delivered = {}
    /\ everDelivered = {}
    /\ failed = {}
    /\ ioFailed = FALSE
    /\ failStreak = 0
    /\ throwStreak = 0

\* parseNotesOutput: the notes whose txid is not in processedTxids
RECURSIVE ParseNotes(_, _)
ParseNotes(notes, P) ==
    IF notes = <<>> THEN <<>>
    ELSE (IF Head(notes) \in P THEN <<>> ELSE <<Head(notes)>>) \o ParseNotes(Tail(notes), P)

\* NextUnprocessed that does not look at the processed-id set
NextAny(txs, i, P) == IF i < Len(txs) THEN i + 1 ELSE 0

\* poll: the index of the next transaction after index i that passes
\* if (!processedTxids.has(tx.txid)), 0 if the loop runs out
NextUnprocessed(txs, i, P) ==
    LET cand == {j \in (i + 1)..Len(txs) : txs[j] \notin P}
    IN  IF cand = {} THEN 0 ELSE CHOOSE j \in cand : \A m \in cand : j <= m

\* poll: the for loop continued after index r.i, up to the next handler
\* invocation ("handling"), the end of the try block ("pollend") or the
\* outer catch; tx.txid.substring throws there for a note without txid
LoopFrom(r, P) ==
    LET j == NextUnprocessed(r.txs, r.i, P)
    IN  IF j = 0 THEN [r EXCEPT !.pc = "pollend"]
        ELSE IF r.txs[j] = NoTxid
        THEN [r EXCEPT !.i = j,
                       !.consecutiveErrors = @ + 1,
                       !.pc = IF r.consecutiveErrors + 1 >= MAX_CONSECUTIVE_ERRORS
                              THEN "tripped" ELSE "pollend"]
        ELSE [r EXCEPT !.pc = "handling", !.i = j, !.tried = @ \cup {r.txs[j]}]

\* bookkeeping of the scenario counters when a poll iteration is over
StreakUpdate(r) ==
    /\ failStreak' =
        IF env # "syncDown" THEN failStreak
        ELSE IF r.syncFailed THEN Min(failStreak + 1, MAX_CONSECUTIVE_ERRORS) ELSE 0
    /\ throwStreak' =
        IF env # "handlerThrows" THEN throwStreak
        ELSE IF r.threw THEN Min(throwStreak + 1, MAX_CONSECUTIVE_ERRORS) ELSE 0

\* poll: the tail of an iteration that has run up to r: the circuit breaker
\* clears isWatching and returns, otherwise if (isWatching) setTimeout(poll)
Settle(k, r) ==
    IF r.pc = "handling"
    THEN /\ chain' = [chain EXCEPT ![k] = r]
         /\ UNCHANGED <<isWatching, failStreak, throwStreak>>
    ELSE /\ StreakUpdate(r)
         /\ isWatching' = IF r.pc = "tripped" THEN FALSE ELSE isWatching
         /\ chain' = [chain EXCEPT ![k] =
                IF r.pc = "pollend" /\ isWatching
                THEN [OffChain EXCEPT !.pc = "timer",
                                      !.consecutiveErrors = r.consecutiveErrors]
                ELSE OffChain]

\* initZingo(): loadProcessedTxids, which swallows a failed read
InitZingo ==
    /\ phase = "fresh"
    /\ phase' = "ready"
    /\ \E readOk \in BOOLEAN :
        /\ processedTxids' = IF readOk THEN processedTxids \cup diskIds ELSE processedTxids
        /\ ioFailed' = (ioFailed \/ ~readOk)
    /\ UNCHANGED <<diskIds, isWatching, chain, delivered, everDelivered, failed,
                   env, failStreak, throwStreak, lastSyncHeight, clientVars, pureVars, demoVars>>

\* watchForTransactions(): past the isWatching guard, the first poll() runs
\* up to the spawn of the sync command
WatchCall ==
    /\ phase = "ready"
    /\ ~isWatching
    /\ \E k \in Chains :
        /\ chain[k].pc = "off"
        /\ \A m \in Chains : chain[m].pc = "off" => k <= m
        /\ chain' = [chain EXCEPT ![k] = [OffChain EXCEPT !.pc = "sync", !.attempt = 1]]
    /\ isWatching' = TRUE
    /\ UNCHANGED <<processedTxids, diskIds, phase, delivered, everDelivered, failed,
                   ioFailed, env, failStreak, throwStreak, lastSyncHeight, clientVars, pureVars, demoVars>>

\* stopWatching()
StopWatching ==
    /\ isWatching
    /\ isWatching' = FALSE
    /\ UNCHANGED <<processedTxids, diskIds, phase, chain, delivered, everDelivered,
                   failed, ioFailed, env, failStreak, throwStreak, lastSyncHeight, clientVars, pureVars, demoVars>>

\* PollStart without the test of isWatching
PollStartNoGuard(k) ==
    /\ chain[k].pc = "timer"
    /\ chain' = [chain EXCEPT ![k] = [@ EXCEPT !.pc = "sync", !.attempt = 1]]
    /\ UNCHANGED <<processedTxids, diskIds, isWatching, phase, delivered, everDelivered,
                   failed, ioFailed, env, failStreak, throwStreak, lastSyncHeight,
                   clientVars, pureVars, demoVars>>

\* the timer set by setTimeout(poll, pollInterval) fires
PollStart(k) ==
    /\ chain[k].pc = "timer"
    /\ chain' = [chain EXCEPT ![k] =
            IF ~isWatching THEN OffChain
            ELSE [@ EXCEPT !.pc = "sync", !.attempt = 1]]
    /\ UNCHANGED <<processedTxids, diskIds, isWatching, phase, delivered, everDelivered,
                   failed, ioFailed, env, failStreak, throwStreak, lastSyncHeight, clientVars, pureVars, demoVars>>

\* syncWallet: the sync command of the current attempt has exited; on
\* success lastSyncHeight is the height found in its output
SyncResult(k) ==
    /\ chain[k].pc = "sync"
    /\ \E ok \in (IF env = "syncDown" THEN {FALSE} ELSE BOOLEAN), h \in SyncHeights :
        /\ chain' = [chain EXCEPT ![k] =
                IF ok THEN [@ EXCEPT !.pc = "notes"]
                ELSE IF @.attempt < SyncRetries THEN [@ EXCEPT !.pc = "backoff"]
                ELSE [@ EXCEPT !.pc = "notes", !.syncFailed = (env = "syncDown")]]
        /\ lastSyncHeight' = IF ok THEN h ELSE lastSyncHeight
    /\ UNCHANGED <<processedTxids, diskIds, isWatching, phase, delivered, everDelivered,
                   failed, ioFailed, env, failStreak, throwStreak, clientVars, pureVars, demoVars>>

\* syncWallet: the wait before the next attempt is over
BackoffDone(k) ==
    /\ chain[k].pc = "backoff"
    /\ chain' = [chain EXCEPT ![k].pc = "sync", ![k].attempt = @ + 1]
    /\ UNCHANGED <<processedTxids, diskIds, isWatching, phase, delivered, everDelivered,
                   failed, ioFailed, env, failStreak, throwStreak, lastSyncHeight, clientVars, pureVars, demoVars>>

\* getNotes: the notes command has exited; scanForNewTransactions returns,
\* poll resets consecutiveErrors and enters its for loop
NotesResult(k) ==
    /\ chain[k].pc = "notes"
    /\ \E notes \in NoteLists \cup {<<>>} :
        Settle(k, LoopFrom([chain[k] EXCEPT !.consecutiveErrors = 0,
                                            !.txs = ParseNotes(notes, processedTxids),
                                            !.i = 0],
                           processedTxids))
    /\ UNCHANGED <<processedTxids, diskIds, phase, delivered, everDelivered,
                   failed, ioFailed, env, lastSyncHeight, clientVars, pureVars, demoVars>>

\* HandlerDone whose inner catch stops the watcher
HandlerDoneHalts(k) ==
    /\ chain[k].pc = "handling"
    /\ LET x == chain[k].txs[chain[k].i]
       IN  \E ok \in (IF env = "handlerThrows" THEN {FALSE} ELSE BOOLEAN) :
            IF ok
            THEN /\ processedTxids' = processedTxids \cup {x}
                 /\ \E writeOk \in BOOLEAN :
                        /\ diskIds' = IF writeOk THEN processedTxids' ELSE diskIds
                        /\ ioFailed' = (ioFailed \/ ~writeOk)
                 /\ delivered' = delivered \cup {x}
                 /\ everDelivered' = everDelivered \cup {x}
                 /\ failed' = failed \ {x}
                 /\ Settle(k, LoopFrom(chain[k], processedTxids'))
            ELSE /\ failed' = failed \cup {x}
                 /\ isWatching' = FALSE
                 /\ chain' = [chain EXCEPT ![k] = OffChain]
                 /\ UNCHANGED <<processedTxids, diskIds, ioFailed, delivered, everDelivered,
                                failStreak, throwStreak>>
    /\ UNCHANGED <<phase, env, lastSyncHeight, clientVars, pureVars, demoVars>>


\* HandlerDone that marks the transaction although the handler threw
HandlerDoneMarks(k) ==
    /\ chain[k].pc = "handling"
    /\ LET x == chain[k].txs[chain[k].i]
       IN  \E ok \in (IF env = "handlerThrows" THEN {FALSE} ELSE BOOLEAN) :
            IF ok
            THEN /\ processedTxids' = processedTxids \cup {x}
                 /\ \E writeOk \in BOOLEAN :
                        /\ diskIds' = IF writeOk THEN processedTxids' ELSE diskIds
                        /\ ioFailed' = (ioFailed \/ ~writeOk)
                 /\ delivered' = delivered \cup {x}
                 /\ everDelivered' = everDelivered \cup {x}
                 /\ failed' = failed \ {x}
                 /\ Settle(k, LoopFrom(chain[k], processedTxids'))
            ELSE /\ failed' = failed \cup {x}
                 /\ processedTxids' = processedTxids \cup {x}
                 /\ diskIds' = processedTxids'
                 /\ Settle(k, LoopFrom([chain[k] EXCEPT !.threw = (env = "handlerThrows")],
                                       processedTxids'))
                 /\ UNCHANGED <<ioFailed, delivered, everDelivered>>
    /\ UNCHANGED <<phase, env, lastSyncHeight, clientVars, pureVars, demoVars>>


\* HandlerDone whose markProcessed does not rewrite the id file
HandlerDoneNoSave(k) ==
    /\ chain[k].pc = "handling"
    /\ LET x == chain[k].txs[chain[k].i]
       IN  \E ok \in (IF env = "handlerThrows" THEN {FALSE} ELSE BOOLEAN) :
            IF ok
            THEN /\ processedTxids' = processedTxids \cup {x}
                 /\ UNCHANGED <<diskIds, ioFailed>>
                 /\ delivered' = delivered \cup {x}
                 /\ everDelivered' = everDelivered \cup {x}
                 /\ failed' = failed \ {x}
                 /\ Settle(k, LoopFrom(chain[k], processedTxids'))
            ELSE /\ failed' = failed \cup {x}
                 /\ Settle(k, LoopFrom([chain[k] EXCEPT !.threw = (env = "handlerThrows")],
                                       processedTxids))
                 /\ UNCHANGED <<processedTxids, diskIds, ioFailed, delivered, everDelivered>>
    /\ UNCHANGED <<phase, env, lastSyncHeight, clientVars, pureVars, demoVars>>


\* HandlerDone whose failed write of the id file reaches the outer catch
HandlerDoneWriteCounts(k) ==
    /\ chain[k].pc = "handling"
    /\ LET x == chain[k].txs[chain[k].i]
       IN  \E ok \in (IF env = "handlerThrows" THEN {FALSE} ELSE BOOLEAN) :
            IF ok
            THEN /\ processedTxids' = processedTxids \cup {x}
                 /\ delivered' = delivered \cup {x}
                 /\ everDelivered' = everDelivered \cup {x}
                 /\ failed' = failed \ {x}
                 /\ \E writeOk \in BOOLEAN :
                        /\ diskIds' = IF writeOk THEN processedTxids' ELSE diskIds
                        /\ ioFailed' = (ioFailed \/ ~writeOk)
                        /\ IF writeOk
                           THEN Settle(k, LoopFrom(chain[k], processedTxids'))
                           ELSE Settle(k, [chain[k] EXCEPT
                                    !.consecutiveErrors = @ + 1,
                                    !.pc = IF chain[k].consecutiveErrors + 1
                                                >= MAX_CONSECUTIVE_ERRORS
                                           THEN "tripped" ELSE "pollend"])
            ELSE /\ failed' = failed \cup {x}
                 /\ Settle(k, LoopFrom([chain[k] EXCEPT !.threw = (env = "handlerThrows")],
                                       processedTxids))
                 /\ UNCHANGED <<processedTxids, diskIds, ioFailed, delivered, everDelivered>>
    /\ UNCHANGED <<phase, env, lastSyncHeight, clientVars, pureVars, demoVars>>

\* await onTransaction(tx) settles: on success markProcessed(tx.txid) adds
\* the id and saveProcessedTxids rewrites the file (a failed write is
\* swallowed); on a throw the inner catch only logs. The for loop goes on.
HandlerDone(k) ==
    /\ chain[k].pc = "handling"
    /\ LET x == chain[k].txs[chain[k].i]
       IN  \E ok \in (IF env = "handlerThrows" THEN {FALSE} ELSE BOOLEAN) :
            IF ok
            THEN /\ processedTxids' = processedTxids \cup {x}
                 /\ \E writeOk \in BOOLEAN :
                        /\ diskIds' = IF writeOk THEN processedTxids' ELSE diskIds
                        /\ ioFailed' = (ioFailed \/ ~writeOk)
                 /\ delivered' = delivered \cup {x}
                 /\ everDelivered' = everDelivered \cup {x}
                 /\ failed' = failed \ {x}
                 /\ Settle(k, LoopFrom(chain[k], processedTxids'))
            ELSE /\ failed' = failed \cup {x}
                 /\ Settle(k, LoopFrom([chain[k] EXCEPT !.threw = (env = "handlerThrows")],
                                       processedTxids))
                 /\ UNCHANGED <<processedTxids, diskIds, ioFailed, delivered, everDelivered>>
    /\ UNCHANGED <<phase, env, lastSyncHeight, clientVars, pureVars, demoVars>>

\* the process stops (interrupt or kill) and is started again: the module
\* state is initial again, the id file is what it was
Restart ==
    /\ phase \in {"ready", "demo"}
    /\ phase' = "fresh"
    /\ processedTxids' = {}
    /\ isWatching' = FALSE
    /\ lastSyncHeight' = 0
    /\ chain' = [k \in Chains |-> OffChain]
    /\ delivered' = {}
    /\ failed' = {}
    /\ failStreak' = 0
    /\ throwStreak' = 0
    /\ demoTransactions' = <<>>
    /\ demoProcessedTxids' = {}
    /\ demoIsWatching' = FALSE
    /\ demoChain' = [k \in Chains |-> DemoOff]
    /\ UNCHANGED <<diskIds, everDelivered, ioFailed, env, clientVars, pureVars>>

WatchNext ==
    \/ InitZingo
    \/ WatchCall
    \/ StopWatching
    \/ \E k \in Chains : PollStart(k)
    \/ \E k \in Chains : SyncResult(k)
    \/ \E k \in Chains : BackoffDone(k)
    \/ \E k \in Chains : NotesResult(k)
    \/ \E k \in Chains : HandlerDone(k)
    \/ Restart

\* ------------------------------------------------------------------------
\* Part III: trial decryption (crypto/sapling.ts) and the stream data handler
\* ------------------------------------------------------------------------

\* The field and curve of the model: a twisted Edwards curve
\* a*x^2 + y^2 = 1 + d*x^2*y^2 with a = -1 and d a non-square over a small
\* prime field of the class of the BLS12-381 scalar field (1 mod 4), whose
\* group has cofactor 8 and a subgroup of prime order, like Jubjub.
FR_MODULUS == 41

JUBJUB_ORDER == 5

JUBJUB_D == 7

JUBJUB_A == FR_MODULUS - 1

MEMO_SIZE == 512

COMPACT_CIPHERTEXT_SIZE == 52

TAG_SIZE == 16

DIVERSIFIER_SIZE == 11

VALUE_SIZE == 8

RCM_SIZE == 32

\* the length tested by decryptFullNote: 564 bytes of plaintext and the tag
FULL_CIPHERTEXT_SIZE == 580

\* byte length of a compressed point and of a viewing key
KEY_SIZE == 32

Zeros(n) == [i \in 1..n |-> 0]

\* buf.subarray(from, to) with 0-based offsets, clipped to the buffer
Subarray(buf, from, to) ==
    LET t == Min(to, Len(buf))
    IN  IF from >= t THEN <<>> ELSE SubSeq(buf, from + 1, t)

mod(n, p) == n % p

RECURSIVE modInverseLoop(_, _, _, _, _)
modInverseLoop(old_r, r, old_s, s, p) ==
    IF r = 0 THEN mod(old_s, p)
    ELSE LET quotient == old_r \div r
         IN  modInverseLoop(r, old_r - quotient * r, s, old_s - quotient * s, p)

modInverse(a, p) == modInverseLoop(a, p, 1, 0, p)

RECURSIVE modPowLoop(_, _, _, _)
modPowLoop(result, base, exp, m) ==
    IF exp <= 0 THEN result
    ELSE modPowLoop(IF exp % 2 = 1 THEN (result * base) % m ELSE result,
                    (base * base) % m, exp \div 2, m)

modPow(base, exp, m) == modPowLoop(1, base % m, exp, m)

\* the null returned by modSqrt
NoRoot == -1

\* modSqrt: q and s with p - 1 = q * 2^s, q odd
RECURSIVE OddPart(_, _)
OddPart(q, s) == IF mod(q, 2) = 0 THEN OddPart(q \div 2, s + 1) ELSE <<q, s>>

\* modSqrt: the first z >= 2 that is a non-residue
RECURSIVE FindNonResidue(_, _)
FindNonResidue(z, p) ==
    IF modPow(z, (p - 1) \div 2, p) # p - 1 THEN FindNonResidue(z + 1, p) ELSE z

\* modSqrt: the inner while loop, returns i
RECURSIVE LeastOrder(_, _, _, _)
LeastOrder(temp, i, m, p) ==
    IF temp # 1 /\ i < m THEN LeastOrder(mod(temp * temp, p), i + 1, m, p) ELSE i

\* modSqrt: the while (true) loop
RECURSIVE TonelliLoop(_, _, _, _, _)
TonelliLoop(m, c, t, r, p) ==
    IF t = 1 THEN r
    ELSE LET i == LeastOrder(mod(t * t, p), 1, m, p)
         IN  IF i = m THEN NoRoot
             ELSE LET b == modPow(c, 2 ^ (m - i - 1), p)
                      c2 == mod(b * b, p)
                  IN  TonelliLoop(i, c2, mod(t * c2, p), mod(r * b, p), p)

\* modSqrt taking the p = 3 (mod 4) formula for every modulus
modSqrtFastPath(n, p) ==
    IF n = 0 THEN 0
    ELSE IF modPow(n, (p - 1) \div 2, p) # 1 THEN NoRoot
    ELSE modPow(n, (p + 1) \div 4, p)

modSqrt(n, p) ==
    IF n = 0 THEN 0
    ELSE IF modPow(n, (p - 1) \div 2, p) # 1 THEN NoRoot
    ELSE IF mod(p, 4) = 3 THEN modPow(n, (p + 1) \div 4, p)
    ELSE LET qs == OddPart(p - 1, 0)
             q == qs[1]
             z == FindNonResidue(2, p)
         IN  TonelliLoop(qs[2], modPow(z, q, p), modPow(n, q, p),
                         modPow(n, (q + 1) \div 2, p), p)

\* the null returned by decompressPoint
NoPoint == [valid |-> FALSE, x |-> 0, y |-> 0]

Point(x, y) == [valid |-> TRUE, x |-> x, y |-> y]

\* decompressPoint without the test y >= FR_MODULUS
decompressPointNoRange(compressed) ==
    IF Len(compressed) # KEY_SIZE THEN NoPoint
    ELSE LET signBit == compressed[KEY_SIZE] >= 128
             bytes == [compressed EXCEPT ![KEY_SIZE] = @ % 128]
             y == bytes[1]
             y2 == mod(y * y, FR_MODULUS)
             numerator == mod(y2 - 1, FR_MODULUS)
             denominator == mod(JUBJUB_D * y2 - JUBJUB_A, FR_MODULUS)
         IN  IF denominator = 0 THEN NoPoint
             ELSE LET x2 == mod(numerator * modInverse(denominator, FR_MODULUS),
                                FR_MODULUS)
                      x == modSqrt(x2, FR_MODULUS)
                  IN  IF x = NoRoot THEN NoPoint
                      ELSE IF (x % 2 = 1) # signBit
                      THEN Point(mod(-x, FR_MODULUS), y)
                      ELSE Point(x, y)

\* decompressPoint: the little-endian y read from the 32 bytes with the top
\* bit of the last byte cleared is compared with the modulus; any non-zero
\* byte above the first makes it 256 or more
decompressPoint(compressed) ==
    IF Len(compressed) # KEY_SIZE THEN NoPoint
    ELSE LET signBit == compressed[KEY_SIZE] >= 128
             bytes == [compressed EXCEPT ![KEY_SIZE] = @ % 128]
             y == bytes[1]
         IN  IF (\E i \in 2..KEY_SIZE : bytes[i] # 0) \/ y >= FR_MODULUS THEN NoPoint
             ELSE LET y2 == mod(y * y, FR_MODULUS)
                      numerator == mod(y2 - 1, FR_MODULUS)
                      denominator == mod(JUBJUB_D * y2 - JUBJUB_A, FR_MODULUS)
                  IN  IF denominator = 0 THEN NoPoint
                      ELSE LET x2 == mod(numerator * modInverse(denominator, FR_MODULUS),
                                         FR_MODULUS)
                               x == modSqrt(x2, FR_MODULUS)
                           IN  IF x = NoRoot THEN NoPoint
                               ELSE IF (x % 2 = 1) # signBit
                               THEN Point(mod(-x, FR_MODULUS), y)
                               ELSE Point(x, y)

pointAdd(p1, p2) ==
    LET x1x2 == mod(p1.x * p2.x, FR_MODULUS)
        y1y2 == mod(p1.y * p2.y, FR_MODULUS)
        dx1x2y1y2 == mod(JUBJUB_D * x1x2 * y1y2, FR_MODULUS)
        x3num == mod(p1.x * p2.y + p1.y * p2.x, FR_MODULUS)
        x3den == mod(1 + dx1x2y1y2, FR_MODULUS)
        y3num == mod(y1y2 - JUBJUB_A * x1x2, FR_MODULUS)
        y3den == mod(1 - dx1x2y1y2, FR_MODULUS)
    IN  Point(mod(x3num * modInverse(x3den, FR_MODULUS), FR_MODULUS),
              mod(y3num * modInverse(y3den, FR_MODULUS), FR_MODULUS))

pointDouble(p) == pointAdd(p, p)

\* scalarMult: the scalar read little-endian and reduced modulo the order
RECURSIVE ScalarOf(_, _)
ScalarOf(scalar, i) ==
    IF i = 0 THEN 0
    ELSE (ScalarOf(scalar, i - 1) + scalar[i] * modPow(256, i - 1, JUBJUB_ORDER))
            % JUBJUB_ORDER

RECURSIVE scalarMultLoop(_, _, _)
scalarMultLoop(k, result, current) ==
    IF k <= 0 THEN result
    ELSE scalarMultLoop(k \div 2,
                        IF k % 2 = 1 THEN pointAdd(result, current) ELSE result,
                        pointDouble(current))

scalarMult(scalar, point) ==
    scalarMultLoop(ScalarOf(scalar, KEY_SIZE), Point(0, 1), point)

\* encodePointX: the x-coordinate as 32 little-endian bytes
encodePointX(point) ==
    [i \in 1..KEY_SIZE |-> (point.x \div (256 ^ Min(i - 1, 3))) % 256]
\* a digest of a byte string into 0..250, standing for the mixing done by
\* BLAKE2b, the ChaCha20 block function and Poly1305
RECURSIVE WeightedSum(_, _, _)
WeightedSum(bytes, lo, hi) ==
    IF lo > hi THEN 0
    ELSE IF lo = hi THEN (bytes[lo] + 1) * ((lo % 13) + 1)
    ELSE LET mid == (lo + hi) \div 2
         IN  WeightedSum(bytes, lo, mid) + WeightedSum(bytes, mid + 1, hi)

Digest(bytes, n) == (7 + WeightedSum(bytes, 1, n)) % 251

\* kdfSapling: BLAKE2b-256 of sharedSecret || ephemeralKey, personalised
kdfSapling(sharedSecret, ephemeralKey) ==
    LET input == sharedSecret \o ephemeralKey
        h == Digest(input, Len(input))
    IN  [i \in 1..KEY_SIZE |-> (h * 5 + i * 11 + 3) % 256]

RECURSIVE Xor(_, _)
Xor(a, b) ==
    IF a = 0 THEN b
    ELSE IF b = 0 THEN a
    ELSE ((a + b) % 2) + 2 * Xor(a \div 2, b \div 2)

\* byte off (0..63) of the ChaCha20 block with the given key digest, zero
\* nonce and block counter
ChaChaByte(keyDigest, counter, off) ==
    (keyDigest * 3 + counter * 89 + off * 7 + ((counter * off) % 5) + 1) % 256

\* the data XORed with the ChaCha20 key stream that starts at block counter
ChaChaXor(key, counter, data) ==
    LET kd == Digest(key, Len(key))
    IN  [n \in 1..Len(data) |->
            Xor(data[n], ChaChaByte(kd, counter + (n - 1) \div 64, (n - 1) % 64))]

\* the Poly1305 tag of a ciphertext, keyed from ChaCha20 block 0
Poly1305Tag(key, ct) ==
    LET kd == Digest(key, Len(key))
        cd == Digest(ct, Len(ct))
    IN  [i \in 1..TAG_SIZE |-> (ChaChaByte(kd, 0, i - 1) + cd * i) % 256]

\* the value of a call that threw
Thrown == <<-1>>

\* the null returned in place of a buffer
NoBuffer == <<-2>>

\* chacha20poly1305(key, nonce).decrypt(data) of @noble/ciphers: the tag is
\* the last 16 bytes; a wrong tag throws, otherwise the payload is XORed
\* with the key stream from block counter 1
AeadDecrypt(key, data) ==
    IF Len(data) < TAG_SIZE THEN Thrown
    ELSE LET ct == SubSeq(data, 1, Len(data) - TAG_SIZE)
             tag == SubSeq(data, Len(data) - TAG_SIZE + 1, Len(data))
         IN  IF tag # Poly1305Tag(key, ct) THEN Thrown
             ELSE ChaChaXor(key, 1, ct)

\* decryptCompactCiphertext: crypto.createDecipheriv("chacha20", key, nonce)
\* is given a 12-byte nonce where the cipher takes a 16-byte IV (counter and
\* nonce). A runtime that checks the IV length throws, and the catch returns
\* null; one that accepts it pads with zeros and starts at block counter 0.
decryptCompactCiphertext(key, ciphertext, ivAccepted) ==
    IF ~ivAccepted THEN NoBuffer
    ELSE LET decrypted == ChaChaXor(key, 0, ciphertext)
         IN  IF decrypted = <<>> THEN NoBuffer
             ELSE IF decrypted[1] # 1 /\ decrypted[1] # 2 THEN NoBuffer
             ELSE decrypted

\* the text parseNotePlaintext reports for a memo it does not have
MemoNotAvailable ==
    <<91, 77, 101, 109, 111, 32, 110, 111, 116, 32, 97, 118, 97, 105,
      108, 97, 98, 108, 101, 32, 105, 110, 32, 99, 111, 109, 112, 97,
      99, 116, 32, 98, 108, 111, 99, 107, 32, 45, 32, 110, 101, 101,
      100, 32, 102, 117, 108, 108, 32, 116, 114, 97, 110, 115, 97, 99,
      116, 105, 111, 110, 93>>

\* the code points String.prototype.trim removes
WhiteSpace ==
    {9, 10, 11, 12, 13, 32, 160, 5760, 8232, 8233, 8239, 8287, 12288, 65279}
        \cup (8192..8202)

RECURSIVE TrimStart(_)
TrimStart(t) ==
    IF t # <<>> /\ Head(t) \in WhiteSpace THEN TrimStart(Tail(t)) ELSE t

RECURSIVE TrimEnd(_)
TrimEnd(t) ==
    IF t # <<>> /\ t[Len(t)] \in WhiteSpace
    THEN TrimEnd(SubSeq(t, 1, Len(t) - 1)) ELSE t

Trim(t) == TrimEnd(TrimStart(t))

\* buf.toString("utf-8"): what the byte at index i contributes. One- and
\* two-byte sequences are decoded; a continuation byte that follows a
\* two-byte lead is consumed by it; any other byte decodes to U+FFFD
Utf8At(bytes, i) ==
    IF bytes[i] < 128 THEN <<bytes[i]>>
    ELSE IF bytes[i] \in 194..223 /\ i < Len(bytes) /\ bytes[i + 1] \in 128..191
    THEN <<(bytes[i] - 192) * 64 + (bytes[i + 1] - 128)>>
    ELSE IF bytes[i] \in 128..191 /\ i > 1 /\ bytes[i - 1] \in 194..223
    THEN <<>>
    ELSE <<65533>>

\* buf.toString("utf-8"): the code points of the bytes lo..hi
RECURSIVE Utf8Decode(_, _, _)
Utf8Decode(bytes, lo, hi) ==
    IF lo > hi THEN <<>>
    ELSE IF lo = hi THEN Utf8At(bytes, lo)
    ELSE LET mid == (lo + hi) \div 2
         IN  Utf8Decode(bytes, lo, mid) \o Utf8Decode(bytes, mid + 1, hi)

\* DecodeMemo that keeps the 0xF6 marker
decodeMemoKeepsMarker(memo) ==
    LET startIdx == 0
        nulls == {i \in startIdx..(Len(memo) - 1) : memo[i + 1] = 0}
        endIdx == IF nulls = {} THEN Len(memo)
                  ELSE CHOOSE i \in nulls : \A j \in nulls : i <= j
        text == Subarray(memo, startIdx, endIdx)
    IN  Trim(Utf8Decode(text, 1, Len(text)))

\* decodeMemo (0-based startIdx and endIdx as in the source)
decodeMemo(memo) ==
    LET startIdx == IF memo # <<>> /\ memo[1] = 246 THEN 1 ELSE 0
        nulls == {i \in startIdx..(Len(memo) - 1) : memo[i + 1] = 0}
        endIdx == IF nulls = {} THEN Len(memo)
                  ELSE CHOOSE i \in nulls : \A j \in nulls : i <= j
        text == Subarray(memo, startIdx, endIdx)
    IN  Trim(Utf8Decode(text, 1, Len(text)))

\* the null returned in place of a note
NoNote ==
    [note |-> FALSE, diversifier |-> <<>>, value |-> <<>>, rcm |-> <<>>,
     memo |-> <<>>, memoText |-> <<>>]

\* parseNotePlaintext; value is kept as its 8 little-endian bytes
parseNotePlaintext(plaintext) ==
    IF Len(plaintext) < 52 THEN NoNote
    ELSE LET offset1 == 1
             offset2 == offset1 + DIVERSIFIER_SIZE
             offset3 == offset2 + VALUE_SIZE
             offset4 == offset3 + RCM_SIZE
             full == Len(plaintext) >= offset4 + MEMO_SIZE
             memo == IF full THEN Subarray(plaintext, offset4, offset4 + MEMO_SIZE)
                     ELSE Zeros(MEMO_SIZE)
         IN  [note |-> TRUE,
              diversifier |-> Subarray(plaintext, offset1, offset1 + DIVERSIFIER_SIZE),
              value |-> Subarray(plaintext, offset2, offset2 + VALUE_SIZE),
              rcm |-> IF Len(plaintext) > offset3 + RCM_SIZE
                      THEN Subarray(plaintext, offset3, offset3 + RCM_SIZE)
                      ELSE Zeros(RCM_SIZE),
              memo |-> memo,
              memoText |-> IF full THEN decodeMemo(memo) ELSE MemoNotAvailable]

\* the symmetric key both decryption paths derive for an output (steps 1-3);
\* <<>> when the ephemeral key does not decompress
OutputKey(ephemeralKey, ivkBytes) ==
    LET epk == decompressPoint(ephemeralKey)
    IN  IF ~epk.valid THEN <<>>
        ELSE kdfSapling(encodePointX(scalarMult(ivkBytes, epk)), ephemeralKey)

\* tryDecryptNote; everything runs inside try { } catch { return null }
tryDecryptNote(output, ivkBytes, ivAccepted) ==
    LET key == OutputKey(output.ephemeralKey, ivkBytes)
    IN  IF key = <<>> THEN NoNote
        ELSE IF Len(output.ciphertext) < COMPACT_CIPHERTEXT_SIZE THEN NoNote
        ELSE LET decrypted == decryptCompactCiphertext(key, output.ciphertext, ivAccepted)
             IN  IF decrypted = NoBuffer THEN NoNote
                 ELSE parseNotePlaintext(decrypted)

\* the outcome of a call that lets an exception escape
Raised == [NoNote EXCEPT !.memoText = Thrown]

\* decryptFullNote without its try/catch
decryptFullNoteNoCatch(encCiphertext, ephemeralKey, ivkBytes) ==
    IF Len(encCiphertext) # FULL_CIPHERTEXT_SIZE THEN NoNote
    ELSE LET key == OutputKey(ephemeralKey, ivkBytes)
         IN  IF key = <<>> THEN NoNote
             ELSE LET plaintext == AeadDecrypt(key, encCiphertext)
                  IN  IF plaintext = Thrown THEN Raised
                      ELSE parseNotePlaintext(plaintext)

\* decryptFullNote; the catch turns the invalid-tag exception into null
decryptFullNote(encCiphertext, ephemeralKey, ivkBytes) ==
    IF Len(encCiphertext) # FULL_CIPHERTEXT_SIZE THEN NoNote
    ELSE LET key == OutputKey(ephemeralKey, ivkBytes)
         IN  IF key = <<>> THEN NoNote
             ELSE LET plaintext == AeadDecrypt(key, encCiphertext)
                  IN  IF plaintext = Thrown THEN NoNote
                      ELSE parseNotePlaintext(plaintext)

\* Number(value) of an 8-byte little-endian value, for values below 2^31
\* (the integers of the model); -1 stands for the larger ones
NumberOf(value) ==
    IF value[4] >= 128 \/ \E i \in 5..VALUE_SIZE : value[i] # 0 THEN -1
    ELSE value[1] + 256 * value[2] + 65536 * value[3] + 16777216 * value[4]

\* Number(value) / 100_000_000 as whole coins and the remaining zatoshis
ZecOf(value) ==
    LET v == NumberOf(value)
    IN  IF v < 0 THEN [whole |-> -1, zats |-> -1]
        ELSE [whole |-> v \div 100000000, zats |-> v % 100000000]

\* Buffer#toString("hex"): two digits (0..15) per byte
RECURSIVE ToHex(_)
ToHex(bytes) ==
    IF bytes = <<>> THEN <<>>
    ELSE <<Head(bytes) \div 16, Head(bytes) % 16>> \o ToHex(Tail(bytes))

\* ShieldedTransaction that divides by 10^9
ShieldedTransactionWrongUnit(block, tx, decrypted) ==
    [txid |-> ToHex(Reverse(tx.hash)),
     blockHeight |-> block.height,
     timestamp |-> block.time * 1000,
     amountZatoshis |-> decrypted.value,
     amountZec |-> [whole |-> NumberOf(decrypted.value) \div 1000000000,
                    zats |-> NumberOf(decrypted.value) % 1000000000],
     memo |-> decrypted.memoText,
     processed |-> FALSE]

\* the record pushed for an output of transaction tx in block that decrypted
\* to the note decrypted
ShieldedTransaction(block, tx, decrypted) ==
    [txid |-> ToHex(Reverse(tx.hash)),
     blockHeight |-> block.height,
     timestamp |-> block.time * 1000,
     amountZatoshis |-> decrypted.value,
     amountZec |-> ZecOf(decrypted.value),
     memo |-> decrypted.memoText,
     processed |-> FALSE]

\* stream.on("data"): the records pushed by for (const output of tx.outputs)
\* for outputs j+1.. of tx, in order; tx.actions is never read
RECURSIVE OutputsOfTx(_, _, _, _, _)
OutputsOfTx(block, tx, j, ivkBytes, ivAccepted) ==
    IF j >= Len(tx.outputs) THEN <<>>
    ELSE LET decrypted == tryDecryptNote(tx.outputs[j + 1], ivkBytes, ivAccepted)
         IN  (IF decrypted.note
              THEN <<ShieldedTransaction(block, tx, decrypted)>> ELSE <<>>)
                \o OutputsOfTx(block, tx, j + 1, ivkBytes, ivAccepted)

\* stream.on("data"): for (const tx of block.vtx), from transaction i+1 on
RECURSIVE DataHandler(_, _, _, _)
DataHandler(block, i, ivkBytes, ivAccepted) ==
    IF i >= Len(block.vtx) THEN <<>>
    ELSE OutputsOfTx(block, block.vtx[i + 1], 0, ivkBytes, ivAccepted)
            \o DataHandler(block, i + 1, ivkBytes, ivAccepted)

\* ---- inputs of the pure functions ----

\* longest memo text drawn, in code points
MaxTextLen == 3

\* the largest modulus modSqrt is applied to
MaxPrime == 97

\* the largest retries argument passed to syncWallet
MaxRetries == 5

\* the most demo transactions added in one process
MaxDemoTxs == 3

\* code points memo texts are drawn from: NUL, space, "A", e-acute (two
\* bytes in UTF-8) and o-diaeresis (U+00F6)
TextAlphabet == {0, 32, 65, 233, 246}

\* a 32-byte string with first byte b and last byte top
Key32(b, top) ==
    [i \in 1..KEY_SIZE |-> IF i = 1 THEN b ELSE IF i = KEY_SIZE THEN top ELSE 0]

\* viewing keys: two proper ones and a garbage one
Ivks == {Key32(3, 0), Key32(4, 0), [i \in 1..KEY_SIZE |-> 255]}

\* ephemeral keys that decompress: y = 2 with even x, y = 3 with odd x
GoodEpks == {Key32(2, 0), Key32(3, 128)}

\* ephemeral keys that do not: no root for y = 4, y = p, y = 200, a high
\* byte set, 31 bytes
BadEpks ==
    {Key32(4, 0), Key32(FR_MODULUS, 0), Key32(200, 128),
     [Key32(2, 0) EXCEPT ![2] = 1], SubSeq(Key32(2, 0), 1, KEY_SIZE - 1)}

\* note values as 8 little-endian bytes: 1 and 100000000 zatoshis
NoteValues == {<<1, 0, 0, 0, 0, 0, 0, 0>>, <<0, 225, 245, 5, 0, 0, 0, 0>>}

\* String -> UTF-8 bytes of code points lo..hi of t, all below U+0800
RECURSIVE Utf8Range(_, _, _)
Utf8Range(t, lo, hi) ==
    IF lo > hi THEN <<>>
    ELSE IF lo = hi
    THEN (IF t[lo] < 128 THEN <<t[lo]>>
          ELSE <<192 + (t[lo] \div 64), 128 + (t[lo] % 64)>>)
    ELSE LET mid == (lo + hi) \div 2
         IN  Utf8Range(t, lo, mid) \o Utf8Range(t, mid + 1, hi)

Utf8Encode(t) == Utf8Range(t, 1, Len(t))

\* a memo field holding the bytes, zero-padded to MEMO_SIZE
MemoField(bytes) ==
    [i \in 1..MEMO_SIZE |-> IF i <= Len(bytes) THEN bytes[i] ELSE 0]

\* the memo field a sender writes for text t, with or without the marker
EncodeMemo(t, marker) ==
    MemoField((IF marker THEN <<246>> ELSE <<>>) \o Utf8Encode(t))

\* the 564-byte note plaintext: lead byte, diversifier, value, rcm, memo
NotePlaintext(lead, value, t) ==
    <<lead>> \o [i \in 1..DIVERSIFIER_SIZE |-> 208 + i] \o value
        \o [i \in 1..RCM_SIZE |-> 64 + i] \o EncodeMemo(t, TRUE)

\* the 580-byte enc_ciphertext of a plaintext under an output's key:
\* ChaCha20-Poly1305 with the zero nonce (payload from block counter 1)
Seal(key, plaintext) ==
    LET ct == ChaChaXor(key, 1, plaintext)
    IN  ct \o Poly1305Tag(key, ct)

\* what a sender who encrypts plaintext to the viewing key publishes
EncryptTo(ivkBytes, ephemeralKey, plaintext) ==
    Seal(OutputKey(ephemeralKey, ivkBytes), plaintext)

\* the compact form of an output: the first 52 bytes of enc_ciphertext
Compact(encCiphertext) == SubSeq(encCiphertext, 1, COMPACT_CIPHERTEXT_SIZE)

\* a ciphertext that the key stream from block counter 0 turns into the
\* first n bytes of the plaintext
Counter0Ciphertext(ivkBytes, ephemeralKey, plaintext, n) ==
    ChaChaXor(OutputKey(ephemeralKey, ivkBytes), 0, SubSeq(plaintext, 1, n))

\* no pure function is being applied
NoArg ==
    [op |-> "none", ivk |-> <<>>, epk |-> <<>>, data |-> <<>>, blocks |-> <<>>,
     ivAccepted |-> FALSE, sent |-> <<>>, text |-> <<>>, n |-> 0, p |-> 0]

Ready ==
    [pc |-> "ready", note |-> NoNote, text |-> <<>>, pos |-> 0, transactions |-> <<>>,
     point |-> NoPoint, root |-> NoRoot,
     \* syncWallet: the loop variable, the commands run and waits made so
     \* far, the value resolved
     attempt |-> 0, runs |-> 0, waits |-> 0, synced |-> FALSE, height |-> 0,
     \* delivery-marking: the set and the list (file or array) as the first
     \* of the calls for this id left them
     seen |-> <<>>]

\* tryDecryptNote on the compact form of an output encrypted to the key
\* (sent is the plaintext the sender encrypted), on outputs of another key,
\* on ciphertexts of other lengths and on malformed inputs
TryArgs ==
    LET plain(v) == NotePlaintext(1, v, <<65>>)
        A == Key32(3, 0)
    IN  {[NoArg EXCEPT !.op = "try", !.ivk = k, !.epk = e, !.ivAccepted = acc,
                       !.data = Compact(EncryptTo(k, e, plain(v))), !.sent = plain(v)] :
            k \in {A, Key32(4, 0)}, e \in GoodEpks, v \in NoteValues, acc \in BOOLEAN}
        \cup
        {[NoArg EXCEPT !.op = "try", !.ivk = k, !.epk = e, !.ivAccepted = acc,
                       !.data = Compact(EncryptTo(A, Key32(2, 0), plain(<<1, 0, 0, 0, 0, 0, 0, 0>>)))] :
            k \in Ivks \ {A}, e \in GoodEpks \cup BadEpks, acc \in BOOLEAN}
        \cup
        {[NoArg EXCEPT !.op = "try", !.ivk = A, !.epk = Key32(2, 0), !.ivAccepted = acc,
                       !.data = Counter0Ciphertext(A, Key32(2, 0), NotePlaintext(lead, v, <<65>>), n)] :
            lead \in {0, 1, 2, 3}, v \in NoteValues,
            n \in {0, COMPACT_CIPHERTEXT_SIZE - 1, COMPACT_CIPHERTEXT_SIZE,
                   COMPACT_CIPHERTEXT_SIZE + 1}, acc \in BOOLEAN}

\* decryptFullNote on the enc_ciphertext of an output encrypted to the key,
\* with another key, with a damaged tag, with other lengths and bad keys
FullArgs ==
    LET plain(v, t) == NotePlaintext(1, v, t)
        A == Key32(3, 0)
        good == EncryptTo(A, Key32(2, 0), plain(<<1, 0, 0, 0, 0, 0, 0, 0>>, <<65>>))
    IN  {[NoArg EXCEPT !.op = "full", !.ivk = k, !.epk = e,
                       !.data = EncryptTo(k, e, plain(v, t)), !.sent = plain(v, t)] :
            k \in {A, Key32(4, 0)}, e \in GoodEpks, v \in NoteValues,
            t \in {<<>>, <<65>>, <<32, 233, 32>>}}
        \cup
        {[NoArg EXCEPT !.op = "full", !.ivk = k, !.epk = e, !.data = d] :
            k \in Ivks, e \in GoodEpks \cup BadEpks,
            d \in {good, [good EXCEPT ![FULL_CIPHERTEXT_SIZE] = (@ + 1) % 256],
                   SubSeq(good, 1, FULL_CIPHERTEXT_SIZE - 1), Append(good, 0),
                   Compact(good), <<>>}}

\* parseNotePlaintext on plaintexts of the lengths around its thresholds
ParseArgs ==
    {[NoArg EXCEPT !.op = "parse",
                   !.data = SubSeq(NotePlaintext(lead, v, t) \o Zeros(TAG_SIZE), 1, n)] :
        lead \in {1, 2}, v \in NoteValues, t \in {<<65>>, <<32, 233>>},
        n \in {0, 51, 52, 53, 84, 563, 564, 565, 580}}

\* the texts of at most MaxTextLen code points
Texts == UNION {[1..n -> TextAlphabet] : n \in 0..MaxTextLen}

\* decodeMemo on the memo field holding a text, with and without marker,
\* and on fields filled to the last byte
MemoArgs ==
    {[NoArg EXCEPT !.op = "memo", !.text = t, !.data = EncodeMemo(t, m)] :
        t \in Texts, m \in BOOLEAN}
    \cup
    {[NoArg EXCEPT !.op = "memo", !.text = t, !.data = EncodeMemo(t, Len(t) < MEMO_SIZE)] :
        t \in {[i \in 1..MEMO_SIZE |-> 65], [i \in 1..(MEMO_SIZE - 1) |-> 65],
               [i \in 1..(MEMO_SIZE - 1) |-> IF i = 1 THEN 32 ELSE 65]}}

\* a Sapling output (cmu is never read by the scan)
Output(ephemeralKey, ciphertext) ==
    [cmu |-> <<>>, ephemeralKey |-> ephemeralKey, ciphertext |-> ciphertext]

\* compact blocks a server may stream: outputs the key decrypts (when the
\* decipher runs), an output of another key, and Orchard actions
SampleBlocks ==
    LET A == Key32(3, 0)
        e == Key32(2, 0)
        hit(v) == Output(e, Counter0Ciphertext(A, e, NotePlaintext(1, v, <<65>>),
                                               COMPACT_CIPHERTEXT_SIZE))
        coin == hit(<<0, 225, 245, 5, 0, 0, 0, 0>>)
        zat == hit(<<1, 0, 0, 0, 0, 0, 0, 0>>)
        miss == Output(e, Compact(EncryptTo(Key32(4, 0), e,
                                            NotePlaintext(1, <<1, 0, 0, 0, 0, 0, 0, 0>>, <<65>>))))
        tx1 == [hash |-> <<1, 171>>, outputs |-> <<coin>>, actions |-> <<>>]
        tx2 == [hash |-> <<2, 16>>, outputs |-> <<miss, zat, coin>>, actions |-> <<zat>>]
        tx3 == [hash |-> <<3, 0>>, outputs |-> <<>>, actions |-> <<zat>>]
    IN  {[height |-> 500000, time |-> 1600000, vtx |-> <<tx1>>],
         [height |-> 500001, time |-> 1600075, vtx |-> <<tx3, tx2>>],
         [height |-> 500002, time |-> 0, vtx |-> <<>>]}

\* the data handler of scanBlocks on streams of at most two blocks
ScanArgs ==
    {[NoArg EXCEPT !.op = "scan", !.ivk = k, !.ivAccepted = acc, !.blocks = bs] :
        k \in {Key32(3, 0), Key32(4, 0)}, acc \in BOOLEAN,
        bs \in UNION {[1..n -> SampleBlocks] : n \in 0..2}}

\* decompressPoint on every first byte with either sign bit, and on the
\* malformed encodings
DecompressArgs ==
    {[NoArg EXCEPT !.op = "decompress", !.epk = e] :
        e \in {Key32(b, top) : b \in 0..255, top \in {0, 128}} \cup BadEpks}

\* modSqrt(n, p) for every odd prime p up to MaxPrime and every n in 0..p-1
SqrtArgs ==
    UNION {{[NoArg EXCEPT !.op = "sqrt", !.n = n, !.p = p] : n \in 0..(p - 1)} :
              p \in {q \in 3..MaxPrime : \A d \in 2..(q - 1) : q % d # 0}}

PureArgs ==
    TryArgs \cup FullArgs \cup ParseArgs \cup MemoArgs \cup ScanArgs \cup DecompressArgs
        \cup SqrtArgs

PureIdle == arg = NoArg /\ ret = Ready

ApplyTryDecrypt ==
    /\ arg.op = "try" /\ ret.pc = "ready"
    /\ ret' = [ret EXCEPT !.pc = "done",
                          !.note = tryDecryptNote(Output(arg.epk, arg.data), arg.ivk,
                                                  arg.ivAccepted)]
    /\ UNCHANGED <<arg, clientVars, watchVars, demoVars>>

ApplyDecryptFull ==
    /\ arg.op = "full" /\ ret.pc = "ready"
    /\ ret' = [ret EXCEPT !.pc = "done",
                          !.note = decryptFullNote(arg.data, arg.epk, arg.ivk)]
    /\ UNCHANGED <<arg, clientVars, watchVars, demoVars>>

ApplyParse ==
    /\ arg.op = "parse" /\ ret.pc = "ready"
    /\ ret' = [ret EXCEPT !.pc = "done", !.note = parseNotePlaintext(arg.data)]
    /\ UNCHANGED <<arg, clientVars, watchVars, demoVars>>

ApplyDecodeMemo ==
    /\ arg.op = "memo" /\ ret.pc = "ready"
    /\ ret' = [ret EXCEPT !.pc = "done", !.text = decodeMemo(arg.data)]
    /\ UNCHANGED <<arg, clientVars, watchVars, demoVars>>

ApplyDecompress ==
    /\ arg.op = "decompress" /\ ret.pc = "ready"
    /\ ret' = [ret EXCEPT !.pc = "done", !.point = decompressPoint(arg.epk)]
    /\ UNCHANGED <<arg, clientVars, watchVars, demoVars>>

ApplyModSqrt ==
    /\ arg.op = "sqrt" /\ ret.pc = "ready"
    /\ ret' = [ret EXCEPT !.pc = "done", !.root = modSqrt(arg.n, arg.p)]
    /\ UNCHANGED <<arg, clientVars, watchVars, demoVars>>

\* stream.on("data") for the next block of the stream
ScanData ==
    /\ arg.op = "scan" /\ ret.pc = "ready"
    /\ ret.pos < Len(arg.blocks)
    /\ ret' = [ret EXCEPT !.pos = @ + 1,
                          !.transactions =
                              @ \o DataHandler(arg.blocks[ret.pos + 1], 0, arg.ivk,
                                               arg.ivAccepted)]
    /\ UNCHANGED <<arg, clientVars, watchVars, demoVars>>

\* stream.on("end"): resolve(transactions)
ScanEnd ==
    /\ arg.op = "scan" /\ ret.pc = "ready"
    /\ ret.pos = Len(arg.blocks)
    /\ ret' = [ret EXCEPT !.pc = "done"]
    /\ UNCHANGED <<arg, clientVars, watchVars, demoVars>>

PureNext ==
    \/ ApplyTryDecrypt
    \/ ApplyDecryptFull
    \/ ApplyParse
    \/ ApplyDecodeMemo
    \/ ApplyDecompress
    \/ ApplyModSqrt
    \/ ScanData
    \/ ScanEnd

\* ------------------------------------------------------------------------
\* Part IV: functions of the wallet wrapper called directly
\* ------------------------------------------------------------------------

\* syncWallet(retries): the for loop is entered with attempt = 1 and the
\* first sync command is spawned, or the loop body never runs and the
\* function resolves {height: lastSyncHeight, synced: false}
SyncWalletCall(retries) ==
    /\ phase = "ready"
    /\ arg.op = "none" \/ (arg.op = "syncWallet" /\ ret.pc = "done")
    /\ arg' = [NoArg EXCEPT !.op = "syncWallet", !.n = retries]
    /\ ret' = IF 1 <= retries
              THEN [Ready EXCEPT !.pc = "running", !.attempt = 1, !.runs = 1]
              ELSE [Ready EXCEPT !.pc = "done", !.height = lastSyncHeight]
    /\ UNCHANGED <<clientVars, watchVars, demoVars>>

\* SyncWalletExit that rethrows the last error when every attempt failed
SyncWalletExitRethrows ==
    /\ arg.op = "syncWallet" /\ ret.pc = "running"
    /\ \E ok \in BOOLEAN, h \in SyncHeights :
        /\ lastSyncHeight' = IF ok THEN h ELSE lastSyncHeight
        /\ ret' = IF ok THEN [ret EXCEPT !.pc = "done", !.synced = TRUE, !.height = h]
                  ELSE IF ret.attempt < arg.n
                  THEN [ret EXCEPT !.pc = "waiting", !.waits = @ + 1]
                  ELSE [ret EXCEPT !.pc = "thrown"]
    /\ UNCHANGED <<arg, clientVars, processedTxids, diskIds, isWatching, phase, chain,
                   delivered, everDelivered, failed, ioFailed, env, failStreak,
                   throwStreak, demoVars>>

\* syncWallet: the sync command of the current attempt has exited. On
\* success the height of its output is stored and returned; a failure is
\* caught, followed by a wait if attempt < retries, and after the last
\* attempt by the return of {height: lastSyncHeight, synced: false}
SyncWalletExit ==
    /\ arg.op = "syncWallet" /\ ret.pc = "running"
    /\ \E ok \in BOOLEAN, h \in SyncHeights :
        /\ lastSyncHeight' = IF ok THEN h ELSE lastSyncHeight
        /\ ret' = IF ok THEN [ret EXCEPT !.pc = "done", !.synced = TRUE, !.height = h]
                  ELSE IF ret.attempt < arg.n
                  THEN [ret EXCEPT !.pc = "waiting", !.waits = @ + 1]
                  ELSE [ret EXCEPT !.pc = "done", !.height = lastSyncHeight]
    /\ UNCHANGED <<arg, clientVars, processedTxids, diskIds, isWatching, phase, chain,
                   delivered, everDelivered, failed, ioFailed, env, failStreak,
                   throwStreak, demoVars>>

\* syncWallet: the wait is over, attempt++ and the next command is spawned
SyncWalletWaitDone ==
    /\ arg.op = "syncWallet" /\ ret.pc = "waiting"
    /\ ret' = [ret EXCEPT !.pc = "running", !.attempt = @ + 1, !.runs = @ + 1]
    /\ UNCHANGED <<arg, clientVars, watchVars, demoVars>>

SyncWalletNext ==
    \/ InitZingo
    \/ \E retries \in -1..MaxRetries : SyncWalletCall(retries)
    \/ SyncWalletExit
    \/ SyncWalletWaitDone

\* markProcessed that removes an id that is already in the set
MarkProcessedToggles(txid) ==
    /\ phase = "ready"
    /\ processedTxids' = IF txid \in processedTxids THEN processedTxids \ {txid}
                         ELSE processedTxids \cup {txid}
    /\ \E writeOk \in BOOLEAN :
        /\ diskIds' = IF writeOk THEN processedTxids' ELSE diskIds
        /\ ioFailed' = (ioFailed \/ ~writeOk)
    /\ arg' = [NoArg EXCEPT !.op = "mark", !.n = txid]
    /\ ret' = IF arg.op = "mark" /\ arg.n = txid
              THEN [ret EXCEPT !.pc = "twice"]
              ELSE [Ready EXCEPT !.pc = "once", !.seen = <<processedTxids', diskIds'>>]
    /\ UNCHANGED <<isWatching, lastSyncHeight, phase, chain, delivered, everDelivered,
                   failed, env, failStreak, throwStreak, clientVars, demoVars>>

\* markProcessed(txid) called directly: processedTxids.add(txid), then
\* saveProcessedTxids() rewrites the file with the whole set (a failed write
\* is swallowed). ret records whether the previous call was for the same id.
MarkProcessed(txid) ==
    /\ phase = "ready"
    /\ processedTxids' = processedTxids \cup {txid}
    /\ \E writeOk \in BOOLEAN :
        /\ diskIds' = IF writeOk THEN processedTxids' ELSE diskIds
        /\ ioFailed' = (ioFailed \/ ~writeOk)
    /\ arg' = [NoArg EXCEPT !.op = "mark", !.n = txid]
    /\ ret' = IF arg.op = "mark" /\ arg.n = txid
              THEN [ret EXCEPT !.pc = "twice"]
              ELSE [Ready EXCEPT !.pc = "once", !.seen = <<processedTxids', diskIds'>>]
    /\ UNCHANGED <<isWatching, lastSyncHeight, phase, chain, delivered, everDelivered,
                   failed, env, failStreak, throwStreak, clientVars, demoVars>>

\* ------------------------------------------------------------------------
\* Part V: the demo service (services/zcash.ts)
\* ------------------------------------------------------------------------

\* initZcash(): the process runs the demo service
InitZcash ==
    /\ phase = "fresh"
    /\ phase' = "demo"
    /\ UNCHANGED <<processedTxids, diskIds, isWatching, lastSyncHeight, chain, delivered,
                   everDelivered, failed, ioFailed, env, failStreak, throwStreak,
                   clientVars, pureVars, demoVars>>

\* addDemoTransaction(): a transaction with a fresh txid, processed: false
\* (a marking call made after it does not count as a repeat of the one
\* made before it)
AddDemoTransaction ==
    /\ phase = "demo"
    /\ Len(demoTransactions) < MaxDemoTxs
    /\ demoTransactions' =
            Append(demoTransactions,
                   [txid |-> Len(demoTransactions) + 1, processed |-> FALSE])
    /\ arg' = NoArg
    /\ ret' = Ready
    /\ UNCHANGED <<demoProcessedTxids, demoIsWatching, demoChain, clientVars, watchVars>>

\* getUnprocessedTransactions(): the txids of the transactions that are not
\* flagged and not in the set, in array order
RECURSIVE GetUnprocessed(_, _)
GetUnprocessed(T, P) ==
    IF T = <<>> THEN <<>>
    ELSE (IF ~Head(T).processed /\ Head(T).txid \notin P THEN <<Head(T).txid>> ELSE <<>>)
             \o GetUnprocessed(Tail(T), P)

\* markTransactionProcessed: the array after tx.processed = true for the
\* first transaction with this txid (demoTransactions.find)
FlagProcessed(T, txid) ==
    LET hits == {j \in 1..Len(T) : T[j].txid = txid}
        first == IF hits = {} THEN 0 ELSE CHOOSE j \in hits : \A m \in hits : j <= m
    IN  [j \in 1..Len(T) |-> IF j = first THEN [T[j] EXCEPT !.processed = TRUE]
                             ELSE T[j]]

\* markTransactionProcessed(txid) called directly
MarkTransactionProcessed(txid) ==
    /\ phase = "demo"
    /\ demoProcessedTxids' = demoProcessedTxids \cup {txid}
    /\ demoTransactions' = FlagProcessed(demoTransactions, txid)
    /\ arg' = [NoArg EXCEPT !.op = "markDemo", !.n = txid]
    /\ ret' = IF arg.op = "markDemo" /\ arg.n = txid
              THEN [ret EXCEPT !.pc = "twice"]
              ELSE [Ready EXCEPT !.pc = "once",
                                 !.seen = <<demoProcessedTxids', demoTransactions'>>]
    /\ UNCHANGED <<demoIsWatching, demoChain, clientVars, watchVars>>

\* poll: the for loop continued after index r.i up to the next handler
\* invocation, or to its end and if (isWatching) setTimeout(poll)
DemoAdvance(k, r, watching) ==
    demoChain' = [demoChain EXCEPT ![k] =
        IF r.i < Len(r.txs) THEN [r EXCEPT !.pc = "handling", !.i = @ + 1]
        ELSE IF watching THEN [DemoOff EXCEPT !.pc = "timer"]
        ELSE DemoOff]

\* watchForTransactions() of the demo service: past the guard, the first
\* poll() takes the list of unprocessed transactions and runs up to its
\* first await
DemoWatchCall ==
    /\ phase = "demo"
    /\ ~demoIsWatching
    /\ demoIsWatching' = TRUE
    /\ \E k \in Chains :
        /\ demoChain[k].pc = "off"
        /\ \A m \in Chains : demoChain[m].pc = "off" => k <= m
        /\ DemoAdvance(k, [DemoOff EXCEPT !.txs = GetUnprocessed(demoTransactions,
                                                                  demoProcessedTxids)],
                       TRUE)
    /\ UNCHANGED <<demoTransactions, demoProcessedTxids, clientVars, watchVars, pureVars>>

\* stopWatching() of the demo service
DemoStopWatching ==
    /\ phase = "demo"
    /\ demoIsWatching' = FALSE
    /\ UNCHANGED <<demoTransactions, demoProcessedTxids, demoChain, clientVars, watchVars,
                   pureVars>>

\* the timer set by setTimeout(poll, pollInterval) fires: poll returns at
\* its guard or takes the list of unprocessed transactions and enters the loop
DemoPollStart(k) ==
    /\ demoChain[k].pc = "timer"
    /\ IF ~demoIsWatching
       THEN demoChain' = [demoChain EXCEPT ![k] = DemoOff]
       ELSE DemoAdvance(k, [DemoOff EXCEPT !.txs = GetUnprocessed(demoTransactions,
                                                                 demoProcessedTxids)],
                        demoIsWatching)
    /\ UNCHANGED <<demoTransactions, demoProcessedTxids, demoIsWatching, clientVars,
                   watchVars, pureVars>>

\* await onTransaction(tx) settles: on success markTransactionProcessed,
\* on a throw the catch logs; the for loop goes on
DemoHandlerDone(k) ==
    /\ demoChain[k].pc = "handling"
    /\ LET x == demoChain[k].txs[demoChain[k].i]
       IN  \E ok \in BOOLEAN :
            /\ demoProcessedTxids' =
                    IF ok THEN demoProcessedTxids \cup {x} ELSE demoProcessedTxids
            /\ demoTransactions' =
                    IF ok THEN FlagProcessed(demoTransactions, x) ELSE demoTransactions
    /\ DemoAdvance(k, demoChain[k], demoIsWatching)
    /\ UNCHANGED <<demoIsWatching, clientVars, watchVars, pureVars>>

DemoNext ==
    \/ InitZcash
    \/ AddDemoTransaction
    \/ DemoWatchCall
    \/ DemoStopWatching
    \/ \E k \in Chains : DemoPollStart(k)
    \/ \E k \in Chains : DemoHandlerDone(k)

\* delivery-marking called directly, in either service
MarkNext ==
    \/ InitZingo
    \/ InitZcash
    \/ AddDemoTransaction
    \/ \E txid \in Ids : MarkProcessed(txid)
    \/ \E txid \in 1..MaxDemoTxs : MarkTransactionProcessed(txid)

\* ------------------------------------------------------------------------
\* Specifications
\* ------------------------------------------------------------------------

\* the light client, driven by its callers
Init == ClientInit /\ WatchInit /\ DemoInit /\ env = "any" /\ PureIdle

Spec == Init /\ [][ClientNext]_vars

\* the watch loop, any environment
WatchOnlyInit ==
    /\ ClientInit /\ ivk /\ serverHeight = 0
    /\ WatchInit
    /\ DemoInit

InitWatch == WatchOnlyInit /\ env = "any" /\ PureIdle

SpecWatch == InitWatch /\ [][WatchNext]_vars

\* the watch loop while every wallet sync command fails
InitSyncDown == WatchOnlyInit /\ env = "syncDown" /\ PureIdle

SpecSyncDown == InitSyncDown /\ [][WatchNext]_vars

\* the watch loop with a handler that always throws
InitHandlerThrows == WatchOnlyInit /\ env = "handlerThrows" /\ PureIdle

SpecHandlerThrows == InitHandlerThrows /\ [][WatchNext]_vars

\* the pure functions of the decryption module and the data handler, each
\* applied to one argument drawn from the bounded sets
InitPure == WatchOnlyInit /\ env = "any" /\ arg \in PureArgs /\ ret = Ready

SpecPure == InitPure /\ [][PureNext]_vars

\* syncWallet called directly, one call at a time
SpecSyncWallet == InitWatch /\ [][SyncWalletNext]_vars

\* delivery-marking called directly
SpecMark == InitWatch /\ [][MarkNext]_vars

\* both watch loops (a process runs one of them); a timer that is pending
\* fires as long as the process lives (the event loop runs due timers)
SpecLoops ==
    /\ InitWatch
    /\ [][WatchNext \/ DemoNext]_vars
    /\ \A k \in Chains : WF_vars(PollStart(k)) /\ WF_vars(DemoPollStart(k))

\* ------------------------------------------------------------------------
\* Properties of Part I
\* ------------------------------------------------------------------------

\* the ranges sync() must issue to cover lo+1 .. hi in batches of BATCH_SIZE
BatchRanges(lo, hi) ==
    [i \in 1..((hi - lo + BATCH_SIZE - 1) \div BATCH_SIZE) |->
        <<lo + 1 + (i - 1) * BATCH_SIZE, Min(lo + i * BATCH_SIZE, hi)>>]

C2_Monotonic ==
    [][lastScannedHeight' >= lastScannedHeight
        \/ \E h \in StartPoints : SetStartHeight(h)]_vars

\* the matching heights in lo..hi, ascending
MatchesIn(lo, hi) == SeqAsc({h \in MatchHeights : lo <= h /\ h <= hi})

\* the state of a sync() call that ran on its own, with floor lo
SyncBatchesFrom(c, lo) ==
    LET r == call[c]
    IN  /\ (r.pc = "resolved" /\ r.H > lo) =>
            /\ r.ranges = BatchRanges(lo, r.H)
            /\ r.all = MatchesIn(lo + 1, r.H)
            /\ lastScannedHeight = r.H
        /\ r.pc = "streaming" =>
            /\ r.ranges = SubSeq(BatchRanges(lo, r.H), 1, Len(r.ranges))
            /\ r.ranges[Len(r.ranges)] = <<r.start, r.end>>
            /\ r.all = MatchesIn(lo + 1, r.start - 1)
            /\ lastScannedHeight = r.start - 1

\* C3 as stated: L is lastScannedHeight when sync() is called.
C3_Original ==
    \A c \in Callers :
        (call[c].kind = "sync" /\ call[c].alone) => SyncBatchesFrom(c, call[c].lsh0)

\* C3 (amended): with a viewing key set, L the value of lastScannedHeight
\* once sync() has ensured the connection, and H > L the height
\* getLatestBlock returned, a sync() whose batch streams all complete
\* issues, one after the other, the contiguous ranges of at most BATCH_SIZE
\* heights that cover exactly L+1..H, resolves to the concatenation of the
\* batch results in batch order, and leaves lastScannedHeight = H.
C3_SyncBatches ==
    \A c \in Callers :
        (call[c].kind = "sync" /\ call[c].alone /\ ivk) => SyncBatchesFrom(c, call[c].L)

\* a sync() resolved after three batches with both matches, in order
C3_Witness ==
    \E c \in Callers :
        /\ call[c].kind = "sync" /\ call[c].pc = "resolved" /\ call[c].alone
        /\ Len(call[c].ranges) = 3
        /\ Len(call[c].all) = 2
        /\ lastScannedHeight = MaxHeight

\* C4 as stated: a sync() called with lastScannedHeight >= the server's
\* height resolves to [], opens no stream and leaves lastScannedHeight.
C4_Original ==
    \A c \in Callers :
        (/\ call[c].kind = "sync" /\ call[c].pc = "resolved" /\ call[c].alone
         /\ call[c].lsh0 >= serverHeight) =>
            /\ call[c].all = <<>>
            /\ call[c].ranges = <<>>
            /\ lastScannedHeight = call[c].lsh0

\* C4 (amended): a sync() called with lastScannedHeight >= the server's
\* height resolves to [] without opening a stream; it leaves
\* lastScannedHeight unchanged, except that a sync() which has to connect
\* first while lastScannedHeight is 0 sets it to the activation height.
C4_CaughtUp ==
    \A c \in Callers :
        (/\ call[c].kind = "sync" /\ call[c].pc = "resolved" /\ call[c].alone
         /\ call[c].lsh0 >= serverHeight) =>
            /\ call[c].all = <<>>
            /\ call[c].ranges = <<>>
            /\ lastScannedHeight =
                    IF call[c].lsh0 = 0 /\ call[c].ok THEN ActivationHeight
                    ELSE call[c].lsh0

\* a sync() found itself caught up with a chain it had scanned before
C4_Witness ==
    \E c \in Callers :
        /\ call[c].kind = "sync" /\ call[c].pc = "resolved" /\ call[c].alone
        /\ call[c].H = MaxHeight /\ call[c].lsh0 >= call[c].H
        /\ serverHeight = MaxHeight

\* C5: scanBlocks(start, end) with start > end opens no stream, resolves to
\* [] and leaves lastScannedHeight unchanged.
C5_InvertedNoop ==
    [][\A c \in Callers :
        /\ (call'[c].kind = "scan" /\ call'[c].start > call'[c].end) =>
                call'[c].stream = "none"
        /\ (/\ call[c].kind = "scan" /\ call[c].start > call[c].end
            /\ call'[c] # call[c]) =>
                lastScannedHeight' = lastScannedHeight]_vars

\* C12: at most one block-range stream is open at any time, and no height
\* lies in the ranges of two calls that are streaming together.
C12_NoParallelScan ==
    \A c \in Callers, d \in Callers :
        (c # d /\ call[c].stream = "open" /\ call[d].stream = "open") => FALSE

\* C13: connect() always settles by resolving and never rejects: it
\* resolves false when the protocol definition is missing or cannot be
\* loaded or when the info query returns an error, and true only when the
\* info query succeeded (which is when isConnected is set); a sync() that
\* cannot establish the connection resolves to [] in a step that leaves
\* lastScannedHeight unchanged.
C13_ConnectSettles ==
    /\ [](\A c \in Callers : call[c].kind = "connect" => call[c].pc # "rejected")
    /\ [][\A c \in Callers :
            /\ (ConnectCall(c) /\ Settled(call'[c])) =>
                    (call'[c].pc = "resolved" /\ ~call'[c].ok)
            /\ InfoResponse(c) =>
                    /\ call'[c].pc \in {"resolved", "latest"}
                    /\ call'[c].ok => isConnected'
                    /\ ~call'[c].ok => (isConnected' = isConnected /\ call'[c].pc = "resolved")
            /\ (\/ SyncCall(c) /\ ~isConnected /\ Settled(call'[c])
                \/ call[c].kind = "sync" /\ InfoResponse(c) /\ ~call'[c].ok) =>
                    /\ call'[c].pc = "resolved"
                    /\ call'[c].all = <<>>
                    /\ lastScannedHeight' = lastScannedHeight]_vars

\* a sync() with the cursor at 1500 ran on its own, had the client created,
\* got an error from the info query and resolved with the cursor still there
C13_Witness ==
    \E c \in Callers :
        /\ call[c].kind = "sync" /\ call[c].pc = "resolved" /\ call[c].alone
        /\ client /\ ~isConnected /\ ~call[c].ok
        /\ call[c].lsh0 = 1500 /\ lastScannedHeight = 1500

\* C14: every error transition leads back to Disconnected: the step of a
\* stream error, of a failed latest-block query or of a connect() resolving
\* false leaves isConnected false.
C14_ErrorDisconnects ==
    [][\A c \in Callers :
        (\/ call[c].stream = "open" /\ call'[c].stream = "errored"
         \/ call[c].pc = "latest" /\ call'[c].pc = "resolved" /\ call'[c].H = 0
                /\ call[c].alone /\ serverHeight # 0
         \/ call[c].pc = "connecting" /\ call'[c].pc = "resolved" /\ ~call'[c].ok)
            => ~isConnected']_vars

\* C15: the activation height is the scan floor only if no starting height
\* has been set: a successful connect() leaves lastScannedHeight as it is
\* when setStartHeight(h) assigned it (for every h >= 0) or a completed scan
\* did.
C15_StartHeightKept ==
    [][\A c \in Callers :
        (InfoResponse(c) /\ call'[c].ok /\ cursorSource \in {"set", "scan"}) =>
            lastScannedHeight' = lastScannedHeight]_vars

\* ------------------------------------------------------------------------
\* Properties of Part II
\* ------------------------------------------------------------------------

\* the transaction chain record r is at
CurTx(r) == r.txs[r.i]

\* this step invokes onTransaction in chain k
Invoked(k) ==
    /\ chain'[k].pc = "handling"
    /\ chain[k].pc # "handling" \/ chain'[k].i # chain[k].i

\* this step is the settling of chain k's handler invocation
Settles(k) == chain[k].pc = "handling" /\ chain'[k] # chain[k] /\ phase' = phase

C9_Breaker ==
    /\ failStreak >= MAX_CONSECUTIVE_ERRORS =>
            (~isWatching /\ \A k \in Chains : chain[k].pc = "off")
    /\ \A k \in Chains : chain[k].pc = "handling" => chain[k].consecutiveErrors = 0

C11_NoOverlap ==
    Cardinality({k \in Chains : chain[k].pc = "handling"}) <= 1

\* ------------------------------------------------------------------------
\* Properties of Part III
\* ------------------------------------------------------------------------

\* the value field (8 bytes at offset 12) of a note plaintext
ValueIn(plaintext) == SubSeq(plaintext, 13, 20)

\* C16: for an output encrypted to the key, trial decryption (tryDecryptNote
\* on the compact ciphertext, decryptFullNote on the full one) returns a
\* note whose value equals the value the sender encoded.
C16_DecryptsValue ==
    (ret.pc = "done" /\ arg.op \in {"try", "full"} /\ arg.sent # <<>>) =>
        (ret.note.note /\ ret.note.value = ValueIn(arg.sent))

\* the authentication of a full ciphertext fails under the output's key
AuthFails(data, epk, ivkBytes) ==
    LET key == OutputKey(epk, ivkBytes)
    IN  /\ key # <<>>
        /\ Len(data) = FULL_CIPHERTEXT_SIZE
        /\ SubSeq(data, Len(data) - TAG_SIZE + 1, Len(data))
            # Poly1305Tag(key, SubSeq(data, 1, Len(data) - TAG_SIZE))

\* C17: neither decryption path raises: each returns a note or null, and
\* null when the ephemeral key does not decompress, when the ciphertext is
\* shorter than 52 bytes (compact) or not 580 bytes long (full), when the
\* authentication fails, and when the first decrypted byte of a compact
\* plaintext is neither 0x01 nor 0x02.
C17_NeverRaises ==
    (ret.pc = "done" /\ arg.op \in {"try", "full"}) =>
        /\ ret.note # Raised
        /\ ret.note.note \/ ret.note = NoNote
        /\ ~decompressPoint(arg.epk).valid => ret.note = NoNote
        /\ (arg.op = "try" /\ Len(arg.data) < COMPACT_CIPHERTEXT_SIZE) => ret.note = NoNote
        /\ (arg.op = "full" /\ Len(arg.data) # FULL_CIPHERTEXT_SIZE) => ret.note = NoNote
        /\ (arg.op = "full" /\ AuthFails(arg.data, arg.epk, arg.ivk)) => ret.note = NoNote
        /\ (/\ arg.op = "try" /\ decompressPoint(arg.epk).valid /\ arg.data # <<>>
            /\ ChaChaXor(OutputKey(arg.epk, arg.ivk), 0, arg.data)[1] \notin {1, 2}) =>
                ret.note = NoNote

\* decryptFullNote has returned null for a 580-byte ciphertext with a good
\* ephemeral key whose tag does not verify
C17_Witness ==
    /\ ret.pc = "done" /\ arg.op = "full"
    /\ AuthFails(arg.data, arg.epk, arg.ivk)
    /\ ret.note = NoNote

\* the Sapling outputs of a stream of blocks, in stream order, each with
\* its block and transaction
FlatOutputs(blocks) ==
    LET ofTx(b, t) == [j \in 1..Len(t.outputs) |-> [b |-> b, t |-> t, o |-> t.outputs[j]]]
        ofBlock(b) ==
            LET F[n \in 0..Len(b.vtx)] ==
                    IF n = 0 THEN <<>> ELSE F[n - 1] \o ofTx(b, b.vtx[n])
            IN  F[Len(b.vtx)]
        G[n \in 0..Len(blocks)] ==
            IF n = 0 THEN <<>> ELSE G[n - 1] \o ofBlock(blocks[n])
    IN  G[Len(blocks)]

\* C18: scanBlocks resolves to one ShieldedTransaction per Sapling output
\* for which trial decryption returned a note and none for an Orchard
\* action, in stream order; each record carries the block's height and
\* time, the note's value as amountZatoshis, value / 100000000 as amountZec
\* (100000000 gives 1.0), the note's memo text and processed = false.
C18_OneRecordPerMatch ==
    (ret.pc = "done" /\ arg.op = "scan") =>
        LET Hit(z) == tryDecryptNote(z.o, arg.ivk, arg.ivAccepted).note
            hits == SelectSeq(FlatOutputs(arg.blocks), Hit)
        IN  /\ Len(ret.transactions) = Len(hits)
            /\ \A n \in 1..Len(hits) :
                LET r == ret.transactions[n]
                    decrypted == tryDecryptNote(hits[n].o, arg.ivk, arg.ivAccepted)
                    v == NumberOf(decrypted.value)
                IN  /\ r.blockHeight = hits[n].b.height
                    /\ r.timestamp = hits[n].b.time * 1000
                    /\ r.txid = ToHex(Reverse(hits[n].t.hash))
                    /\ r.amountZatoshis = decrypted.value
                    /\ v >= 0 => /\ r.amountZec.zats \in 0..99999999
                                 /\ r.amountZec.whole * 100000000 + r.amountZec.zats = v
                    /\ v = 100000000 => r.amountZec = [whole |-> 1, zats |-> 0]
                    /\ r.memo = decrypted.memoText
                    /\ r.processed = FALSE

\* a scan of two blocks has resolved to three records although a fourth
\* output (an Orchard action) decrypts too; the first is the one-coin
\* output at height 500000 with the placeholder memo
C18_Witness ==
    /\ ret.pc = "done" /\ arg.op = "scan"
    /\ Len(arg.blocks) = 2 /\ Len(ret.transactions) = 3
    /\ \E n \in 1..2 : \E i \in 1..Len(arg.blocks[n].vtx) :
            \E a \in 1..Len(arg.blocks[n].vtx[i].actions) :
                tryDecryptNote(arg.blocks[n].vtx[i].actions[a], arg.ivk, arg.ivAccepted).note
    /\ ret.transactions[1].blockHeight = 500000
    /\ ret.transactions[1].amountZec = [whole |-> 1, zats |-> 0]
    /\ ret.transactions[1].memo = MemoNotAvailable
    /\ ret.transactions[2].blockHeight = 500001

\* C19: parseNotePlaintext returns no note for a plaintext shorter than 52
\* bytes; for one shorter than 564 bytes it returns zero randomness, a zero
\* memo and the placeholder text; randomness and memo are taken from
\* offsets 20 and 52 only when all 564 bytes are present.
C19_ShortPlaintextZeroFilled ==
    (ret.pc = "done" /\ arg.op = "parse") =>
        /\ Len(arg.data) < 52 => ret.note = NoNote
        /\ (Len(arg.data) >= 52 /\ Len(arg.data) < 564) =>
                /\ ret.note.note
                /\ ret.note.rcm = Zeros(RCM_SIZE)
                /\ ret.note.memo = Zeros(MEMO_SIZE)
                /\ ret.note.memoText = MemoNotAvailable
        /\ Len(arg.data) >= 564 =>
                /\ ret.note.note
                /\ ret.note.rcm = SubSeq(arg.data, 21, 52)
                /\ ret.note.memo = SubSeq(arg.data, 53, 564)

\* C20 as stated: decoding the memo field that holds s returns trim(s).
C20_Original ==
    (ret.pc = "done" /\ arg.op = "memo") => ret.text = Trim(arg.text)

\* the code points of t before its first NUL
RECURSIVE UpToNul(_)
UpToNul(t) ==
    IF t = <<>> \/ Head(t) = 0 THEN <<>> ELSE <<Head(t)>> \o UpToNul(Tail(t))

\* C20 (amended): for a UTF-8 string s without a NUL character whose
\* encoding fits the memo field, decoding the field that holds s (with or
\* without the 0xF6 marker, zero-padded) returns trim(s); a string with a
\* NUL character comes back cut at its first NUL, trimmed.
C20_MemoRoundTrip ==
    (ret.pc = "done" /\ arg.op = "memo") =>
        /\ (\A i \in 1..Len(arg.text) : arg.text[i] # 0) => ret.text = Trim(arg.text)
        /\ Len(arg.text) <= MaxTextLen => ret.text = Trim(UpToNul(arg.text))

\* a marked memo holding " e-acute A" has been decoded to "e-acute A"
C20_Witness ==
    /\ ret.pc = "done" /\ arg.op = "memo"
    /\ arg.data[1] = 246
    /\ arg.text = <<32, 233, 65>>
    /\ ret.text = <<233, 65>>

\* the y a 32-byte encoding holds is at least the modulus: a non-zero byte
\* above the first (top bit of the last byte cleared) or a first byte >= p
EncodesLargeY(e) ==
    \/ \E i \in 2..(KEY_SIZE - 1) : e[i] # 0
    \/ e[KEY_SIZE] % 128 # 0
    \/ e[1] >= FR_MODULUS

\* d*y^2 - a (mod p)
DenominatorOf(y) == (JUBJUB_D * y * y - JUBJUB_A) % FR_MODULUS

\* some x has x^2 * (d*y^2 - a) = y^2 - 1 (mod p)
HasRoot(y) ==
    \E x \in 0..(FR_MODULUS - 1) :
        (x * x * DenominatorOf(y)) % FR_MODULUS = (y * y - 1) % FR_MODULUS

\* C21: decompressPoint returns a point only with both coordinates below p
\* and on the curve a*x^2 + y^2 = 1 + d*x^2*y^2; it returns invalid for an
\* input that is not 32 bytes, for y >= p, for a zero denominator and when
\* (y^2 - 1)/(d*y^2 - a) is not a quadratic residue.
C21_OnCurveOrInvalid ==
    (arg.op = "decompress" /\ ret.pc = "done") =>
        LET e == arg.epk
            pt == ret.point
        IN  /\ pt.valid =>
                  /\ pt.x \in 0..(FR_MODULUS - 1)
                  /\ pt.y \in 0..(FR_MODULUS - 1)
                  /\ (JUBJUB_A * pt.x * pt.x + pt.y * pt.y) % FR_MODULUS
                         = (1 + JUBJUB_D * pt.x * pt.x * pt.y * pt.y) % FR_MODULUS
                  /\ Len(e) = KEY_SIZE
                  /\ pt.y = e[1]
            /\ Len(e) # KEY_SIZE => ~pt.valid
            /\ (Len(e) = KEY_SIZE /\ EncodesLargeY(e)) => ~pt.valid
            /\ (Len(e) = KEY_SIZE /\ ~EncodesLargeY(e)) =>
                  /\ DenominatorOf(e[1]) = 0 => ~pt.valid
                  /\ ~HasRoot(e[1]) => ~pt.valid

\* decompressPoint has accepted the encoding of y = 3 with the sign bit set
\* and returned the odd root
C21_Witness ==
    /\ arg.op = "decompress" /\ ret.pc = "done"
    /\ arg.epk = Key32(3, 128)
    /\ ret.point.valid /\ ret.point.y = 3 /\ ret.point.x % 2 = 1

\* C22: for every 32-byte encoding decompressPoint accepts, the parity of
\* the returned x equals the sign bit in the top bit of the last byte.
C22_ParityIsSignBit ==
    (arg.op = "decompress" /\ ret.pc = "done" /\ ret.point.valid) =>
        (ret.point.x % 2 = 1) <=> (arg.epk[KEY_SIZE] >= 128)

\* C25: for every odd prime p and every n in 0..p-1, modSqrt(n, p) returns
\* r with r*r = n (mod p) when n is 0 or a quadratic residue and the invalid
\* value when n is a non-residue.
C25_ModSqrtCorrect ==
    (arg.op = "sqrt" /\ ret.pc = "done") =>
        IF \E r \in 0..(arg.p - 1) : (r * r) % arg.p = arg.n
        THEN /\ ret.root \in 0..(arg.p - 1)
             /\ (ret.root * ret.root) % arg.p = arg.n
        ELSE ret.root = NoRoot

\* a root found by the general procedure for a modulus that is 1 mod 8
C25_Witness ==
    /\ arg.op = "sqrt" /\ ret.pc = "done"
    /\ arg.p = 41 /\ arg.n = 2
    /\ ret.root \in {17, 24}

\* C26: no match is lost behind the scan cursor; in particular, when sync()
\* rejects because a later batch fails, no matching block lies between the
\* cursor the sync started from and lastScannedHeight (such a match was
\* found by a completed batch of the rejected call, which returned nothing,
\* and a retry of sync() starts above it). The state looked at is the one
\* right after the error event, before any later event of the failed stream.
C26_NoMatchLost ==
    \A c \in Callers :
        (/\ call[c].kind = "sync" /\ call[c].pc = "rejected" /\ call[c].alone
         /\ call[c].stream = "errored") =>
            \A h \in MatchHeights : ~(call[c].L < h /\ h <= lastScannedHeight)

\* C27: once a scanBlocks call has rejected because of an error event, no
\* later event of the same stream assigns lastScannedHeight or changes the
\* call's outcome.
C27_SettlesOnce ==
    [][\A c \in Callers :
        (StreamEnd(c) /\ call[c].pc = "rejected") =>
            /\ lastScannedHeight' = lastScannedHeight
            /\ call'[c].pc = "rejected"
            /\ call'[c].all = call[c].all]_vars

\* C28: at most one poll chain is active: there is never more than one
\* pending or running poll.
C28_OneChain == Cardinality({k \in Chains : chain[k].pc # "off"}) <= 1

\* C23: a failed read or write of the processed-id file is not fatal: when
\* the write of markProcessed fails the id is still added to the in-memory
\* set, the watcher stays on, the poll goes on to its next transaction or
\* schedules the next poll and its error counter does not grow; a failed
\* read leaves initZingo() completing; within a process the set never loses
\* an id, and no poll invokes the handler for an id that is in the set.
C23_IoFailureTolerated ==
    /\ [][\A k \in Chains :
            (/\ Settles(k) /\ CurTx(chain[k]) \notin failed'
             /\ diskIds' # processedTxids') =>
                /\ CurTx(chain[k]) \in processedTxids'
                /\ isWatching' = isWatching
                /\ chain'[k].pc = "handling" \/ (isWatching => chain'[k].pc = "timer")
                /\ chain'[k].consecutiveErrors <= chain[k].consecutiveErrors]_vars
    /\ [][InitZingo => (phase' = "ready" /\ processedTxids \subseteq processedTxids')]_vars
    /\ [][(phase = "ready" /\ phase' = "ready") =>
            processedTxids \subseteq processedTxids']_vars
    /\ [][\A k \in Chains : Invoked(k) => CurTx(chain'[k]) \notin processedTxids']_vars

\* an id was delivered by this process, its write to the id file failed, it
\* is in the in-memory set and the loop has scheduled its next poll
C23_Witness ==
    \E x \in delivered :
        /\ x \notin diskIds /\ x \in processedTxids
        /\ isWatching
        /\ \E k \in Chains : chain[k].pc = "timer" /\ chain[k].consecutiveErrors = 0

\* the number of times the loop body of syncWallet(n) can run
LoopRuns(n) == IF n < 0 THEN 0 ELSE n

SetsGrow ==
    /\ processedTxids \subseteq processedTxids'
    /\ demoProcessedTxids \subseteq demoProcessedTxids'

C29_StoppedStaysStopped ==
    /\ [][\A k \in Chains :
            /\ (~isWatching /\ ~isWatching') =>
                    /\ chain'[k].pc = "sync" => chain[k].pc \in {"sync", "backoff"}
                    /\ chain'[k].pc = "timer" => chain[k].pc = "timer"
            /\ (~demoIsWatching /\ ~demoIsWatching') =>
                    /\ demoChain'[k].pc = "handling" => demoChain[k].pc = "handling"
                    /\ demoChain'[k].pc = "timer" => demoChain[k].pc = "timer"]_vars
    /\ ~isWatching ~> (isWatching \/ \A k \in Chains : chain[k].pc # "timer")
    /\ ~demoIsWatching ~> (demoIsWatching \/ \A k \in Chains : demoChain[k].pc # "timer")

\* the watcher has been stopped while the timer of its only chain is pending
C29_Witness ==
    /\ phase = "ready" /\ ~isWatching
    /\ \E k \in Chains :
        /\ chain[k].pc = "timer"
        /\ \A m \in Chains \ {k} : chain[m].pc = "off"

====
